---- MODULE Spec2Model ----
(***************************************************************************)
(* launchdock: the daemon control plane (src/src/main.rs, src/src/daemon.rs) *)
(* One machine: the PID file, the socket path, the processes started by    *)
(* `launchdock start`, the daemon's accept loop and its UI thread.         *)
(***************************************************************************)
EXTENDS Integers, Sequences, FiniteSets, TLC

----------------------------------------------------------------------------
(* Bounds of the model *)

\* Daemon processes ever created; their process ids are 1..MaxDaemons.  A start
\* is taken only while a process id is left for it.
MaxDaemons == 2
\* Live UI threads of one daemon the model can count.
MaxUi == 2
\* UI sessions run by `launchdock show` clients themselves (macOS).
MaxLocalUi == 1
\* Characters of an application name, records of a catalog, characters of a
\* search query.
MaxNameLen == 3
MaxCatalog == 2
MaxQueryLen == 2

Daemons == 1..MaxDaemons
NoPid == 0

\* DaemonCommand (daemon.rs:21-27), and request bytes that do not decode.
Commands == {"Show", "Hide", "Stop", "Status"}
Requests == Commands \cup {"Invalid"}

VARIABLES
    os,                \* std::env::consts::OS of the build
    pc,                \* pc[d]: where daemon process d is in run_daemon
    pidFile,           \* content of launchdockd.pid: a pid, or NoPid (absent)
    sockFile,          \* launchdockd.sock: the pid that bound it, or NoPid
    all_apps,          \* model.all_apps of daemon d: "default" or "discovered"
    ui_visible,        \* model.ui_visible of daemon d
    ui_thread_handle,  \* ui_thread_handle of daemon d is Some
    ui_closed,         \* messages waiting in d's ui_closed channel
    uiAlive,           \* UI threads of d that are running run_ui
    spawnPending,      \* start clients between is_running() and spawn()
    localUi,           \* UI sessions run by handle_show_macos
    lastStart,         \* what the last `launchdock start` on a terminal printed,
                       \* and its exit status
    handled,           \* handled[d]: the request d handled in this iteration
                       \* of its loop, the state it found and the response
    call,              \* a call of one of the program's functions: its
                       \* arguments
    result,            \* what the call returned, NoResult before it returns
    session            \* a UI session: the AppState of run_ui, what it
                       \* launched and the last message it was given;
                       \* Nothing where no session is followed

vars == <<os, pc, pidFile, sockFile, all_apps, ui_visible, ui_thread_handle,
          ui_closed, uiAlive, spawnPending, localUi, lastStart, handled,
          call, result, session>>

fileVars == <<pidFile, sockFile>>
modelVars == <<all_apps, ui_visible, ui_thread_handle, ui_closed, uiAlive>>
clientVars == <<spawnPending, localUi, lastStart>>
callVars == <<call, result, session>>

----------------------------------------------------------------------------
(* Helpers *)

Startup == {"writePid", "rmSock", "bind"}
Loop == {"recv", "accept"}
Cleanup == {"cleanSock", "cleanPid"}
\* A process that has ended is at "exited", "ioError", "addrInUse", "killed" or
\* "panicked".

\* A process with this pid exists.
ProcessAlive(pid) == pid \in Daemons /\ pc[pid] \in Startup \cup Loop \cup Cleanup

\* The listener of d is open: from bind until the process ends.
Listening(d) == pc[d] \in Loop \cup Cleanup

\* d is executing the accept loop of run_daemon.
Running(d) == pc[d] \in Loop

Unborn == {d \in Daemons : pc[d] = "unborn"}

\* The pid the next created process gets.
NextPid == CHOOSE d \in Unborn : \A e \in Unborn : d <= e

\* DaemonResponse::ok()
RespOk == [success |-> TRUE, error |-> "none", data |-> "none"]

\* DaemonResponse::ok_with_data(DaemonResponseData::Status{running, visible})
RespStatus(r, v) ==
    [success |-> TRUE, error |-> "none",
     data |-> IF r THEN (IF v THEN "running,visible" ELSE "running,hidden")
              ELSE (IF v THEN "stopped,visible" ELSE "stopped,hidden")]

\* DaemonResponse::error(message)
RespError(msg) == [success |-> FALSE, error |-> msg, data |-> "none"]

\* Nothing was written to the stream: the client reads end of file.
NoResponse == [success |-> FALSE, error |-> "none", data |-> "nothing written"]

\* No `launchdock start` has returned yet.
NoStart == [msg |-> "none", exit |-> 0]

\* No function is being called: the state of the daemon model.
NoCall == [fn |-> "none"]
NoResult == [returned |-> FALSE]

\* Option::None of a string, and of a record or file.
None == "None"
Nothing == [is_some |-> FALSE]
Some(value) == [is_some |-> TRUE, value |-> value]


\* Nothing handled in this iteration.
NoRequest == [req |-> "none", was_visible |-> FALSE, ui_running |-> FALSE,
              resp |-> RespError("none"), ui_failed |-> FALSE]

\* d handled req, with d's state as it is before the handler runs.
Handled(d, req, response) ==
    [handled EXCEPT ![d] = [req |-> req, was_visible |-> ui_visible[d],
                            ui_running |-> uiAlive[d] > 0, resp |-> response,
                            ui_failed |-> FALSE]]

----------------------------------------------------------------------------
Init ==
    /\ os \in {"linux", "macos"}
    /\ pc = [d \in Daemons |-> "unborn"]
    /\ pidFile = NoPid
    /\ sockFile = NoPid
    /\ all_apps = [d \in Daemons |-> "default"]
    /\ ui_visible = [d \in Daemons |-> FALSE]
    /\ ui_thread_handle = [d \in Daemons |-> FALSE]
    /\ ui_closed = [d \in Daemons |-> 0]
    /\ uiAlive = [d \in Daemons |-> 0]
    /\ spawnPending = 0
    /\ localUi = 0
    /\ lastStart = NoStart
    /\ handled = [d \in Daemons |-> NoRequest]
    /\ call = NoCall
    /\ result = NoResult
    /\ session = Nothing

----------------------------------------------------------------------------
(* daemon.rs: detection *)

\* is_running() without the liveness check: the PID file is there.
is_running_pidFileOnly == pidFile # NoPid

\* daemon.rs:92-102: the PID file is readable, parses, and names a live process.
is_running == pidFile # NoPid /\ ProcessAlive(pidFile)

----------------------------------------------------------------------------
(* main.rs:53-79  handle_start *)

\* handle_start reporting the running daemon and spawning a child all the same.
handle_start_already_respawns ==
    /\ is_running
    /\ Unborn # {}
    /\ lastStart' = [msg |-> "LaunchDock is already running", exit |-> 0]
    /\ pc' = [pc EXCEPT ![NextPid] = "writePid"]
    /\ UNCHANGED <<os, callVars, fileVars, modelVars, spawnPending, localUi, handled>>

\* main.rs:55,60-64: stdin is a terminal and is_running(): report, return Ok.
handle_start_already ==
    /\ is_running
    /\ lastStart' = [msg |-> "LaunchDock is already running", exit |-> 0]
    /\ UNCHANGED <<os, callVars, pc, fileVars, modelVars, spawnPending, localUi, handled>>

\* main.rs:55,60-66: stdin is a terminal and is_running() is false: go on to spawn.
handle_start_check ==
    /\ ~is_running
    /\ Cardinality(Unborn) > spawnPending
    /\ spawnPending' = spawnPending + 1
    /\ UNCHANGED <<os, callVars, pc, fileVars, modelVars, localUi, lastStart, handled>>

\* main.rs:68-78: spawn the executable with `start` and null stdio; the child is
\* a new process whose stdin is not a terminal, so it runs run_daemon.
handle_start_spawn ==
    /\ spawnPending > 0
    /\ Unborn # {}
    /\ spawnPending' = spawnPending - 1
    /\ pc' = [pc EXCEPT ![NextPid] = "writePid"]
    /\ lastStart' = [msg |-> "Daemon started with PID", exit |-> 0]
    /\ UNCHANGED <<os, callVars, fileVars, modelVars, localUi, handled>>

\* main.rs:55-58,109-115: stdin is not a terminal: this process runs run_daemon,
\* without a call of is_running().
handle_start_daemon ==
    /\ Cardinality(Unborn) > spawnPending
    /\ pc' = [pc EXCEPT ![NextPid] = "writePid"]
    /\ UNCHANGED <<os, callVars, fileVars, modelVars, clientVars, handled>>

----------------------------------------------------------------------------
(* daemon.rs:140-158  run_daemon, startup *)

\* daemon.rs:141-142: create_dir_all, fs::write(pid_file(), process::id()).
WritePid(d) ==
    /\ pc[d] = "writePid"
    /\ pidFile' = d
    /\ pc' = [pc EXCEPT ![d] = "rmSock"]
    /\ UNCHANGED <<os, callVars, sockFile, modelVars, clientVars, handled>>

\* daemon.rs:141-142: either call returns Err; `?` ends the process.
WritePidFail(d) ==
    /\ pc[d] = "writePid"
    /\ pc' = [pc EXCEPT ![d] = "ioError"]
    /\ UNCHANGED <<os, callVars, fileVars, modelVars, clientVars, handled>>

\* daemon.rs:145: let _ = fs::remove_file(socket_path()).
RemoveOldSocket(d) ==
    /\ pc[d] = "rmSock"
    /\ sockFile' = NoPid
    /\ pc' = [pc EXCEPT ![d] = "bind"]
    /\ UNCHANGED <<os, callVars, pidFile, modelVars, clientVars, handled>>

\* daemon.rs:147-158: bind (fails with AddrInUse when the path exists; `?` ends
\* the process), then the AppModel and the channel before the loop.
Bind(d) ==
    /\ pc[d] = "bind"
    /\ IF sockFile = NoPid
       THEN /\ sockFile' = d
            /\ pc' = [pc EXCEPT ![d] = "recv"]
            /\ all_apps' = [all_apps EXCEPT ![d] = "discovered"]
            /\ ui_visible' = [ui_visible EXCEPT ![d] = FALSE]
            /\ ui_thread_handle' = [ui_thread_handle EXCEPT ![d] = FALSE]
       ELSE /\ pc' = [pc EXCEPT ![d] = "addrInUse"]
            /\ UNCHANGED <<sockFile, all_apps, ui_visible, ui_thread_handle>>
    /\ UNCHANGED <<os, callVars, pidFile, ui_closed, uiAlive, clientVars, handled>>

----------------------------------------------------------------------------
(* daemon.rs:210-324  handle_client_connection: each handler gives the        *)
(* response, the new model and thread handle, and where the loop goes next    *)
(* (should_stop).                                                             *)

\* An undecodable request answered with an error and should_stop = true.
HandleInvalid_stops(d) ==
    /\ handled' = Handled(d, "Invalid", RespError("Invalid command format"))
    /\ pc' = [pc EXCEPT ![d] = "cleanSock"]
    /\ UNCHANGED modelVars

\* daemon.rs:228-236: the bytes read do not decode to a DaemonCommand.
HandleInvalid(d) ==
    /\ handled' = Handled(d, "Invalid", RespError("Invalid command format"))
    /\ pc' = [pc EXCEPT ![d] = "recv"]
    /\ UNCHANGED modelVars

\* Show without the early return on ui_visible: every Show spawns a UI thread.
HandleShow_noVisibleCheck(d) ==
    /\ uiAlive[d] < MaxUi
    /\ uiAlive' = [uiAlive EXCEPT ![d] = @ + 1]
    /\ ui_thread_handle' = [ui_thread_handle EXCEPT ![d] = TRUE]
    /\ ui_visible' = [ui_visible EXCEPT ![d] = TRUE]
    /\ handled' = Handled(d, "Show", RespOk)
    /\ pc' = [pc EXCEPT ![d] = "recv"]
    /\ UNCHANGED <<all_apps, ui_closed>>

\* Show with the model moved into the UI thread instead of a clone of it: the
\* daemon is left with an empty catalog.
HandleShow_movesModel(d) ==
    /\ IF ui_visible[d]
       THEN UNCHANGED <<ui_thread_handle, uiAlive, ui_visible, all_apps>>
       ELSE /\ ui_thread_handle[d] => uiAlive[d] = 0
            /\ uiAlive[d] < MaxUi
            /\ uiAlive' = [uiAlive EXCEPT ![d] = @ + 1]
            /\ ui_thread_handle' = [ui_thread_handle EXCEPT ![d] = TRUE]
            /\ ui_visible' = [ui_visible EXCEPT ![d] = TRUE]
            /\ all_apps' = [all_apps EXCEPT ![d] = "default"]
    /\ handled' = Handled(d, "Show", RespOk)
    /\ pc' = [pc EXCEPT ![d] = "recv"]
    /\ UNCHANGED ui_closed

\* daemon.rs:239-298  DaemonCommand::Show
HandleShow(d) ==
    /\ IF ui_visible[d]
       THEN UNCHANGED <<ui_thread_handle, uiAlive, ui_visible>>
       ELSE \* join a previous thread, then spawn the UI thread on a clone of
            \* the model
            /\ ui_thread_handle[d] => uiAlive[d] = 0
            /\ uiAlive[d] < MaxUi
            /\ uiAlive' = [uiAlive EXCEPT ![d] = @ + 1]
            /\ ui_thread_handle' = [ui_thread_handle EXCEPT ![d] = TRUE]
            /\ ui_visible' = [ui_visible EXCEPT ![d] = TRUE]
    /\ handled' = Handled(d, "Show", RespOk)
    /\ pc' = [pc EXCEPT ![d] = "recv"]
    /\ UNCHANGED <<all_apps, ui_closed>>

\* daemon.rs:300-303  DaemonCommand::Hide
HandleHide(d) ==
    /\ handled' = Handled(d, "Hide", RespOk)
    /\ pc' = [pc EXCEPT ![d] = "recv"]
    /\ UNCHANGED modelVars

\* Status that answers and resets the visibility flag.
HandleStatus_clearsVisible(d) ==
    /\ handled' = Handled(d, "Status", RespStatus(TRUE, ui_visible[d]))
    /\ pc' = [pc EXCEPT ![d] = "recv"]
    /\ ui_visible' = [ui_visible EXCEPT ![d] = FALSE]
    /\ UNCHANGED <<all_apps, ui_thread_handle, ui_closed, uiAlive>>

\* daemon.rs:305-311  DaemonCommand::Status
HandleStatus(d) ==
    /\ handled' = Handled(d, "Status", RespStatus(TRUE, ui_visible[d]))
    /\ pc' = [pc EXCEPT ![d] = "recv"]
    /\ UNCHANGED modelVars

\* daemon.rs:313-322  DaemonCommand::Stop, and the break at daemon.rs:190-192
HandleStop(d) ==
    /\ handled' = Handled(d, "Stop", RespStatus(FALSE, FALSE))
    /\ pc' = [pc EXCEPT ![d] = "cleanSock"]
    /\ UNCHANGED modelVars

\* daemon.rs:259: thread::spawn panics when the OS cannot create the thread; the
\* panic is on the daemon's main thread, so the process ends there: no
\* response is written and cleanup() does not run.
HandleShowSpawnPanics(d) ==
    /\ ~ui_visible[d]
    /\ ui_thread_handle[d] => uiAlive[d] = 0
    /\ handled' = Handled(d, "Show", NoResponse)
    /\ pc' = [pc EXCEPT ![d] = "panicked"]
    /\ uiAlive' = [uiAlive EXCEPT ![d] = 0]
    /\ ui_closed' = [ui_closed EXCEPT ![d] = 0]
    /\ all_apps' = [all_apps EXCEPT ![d] = "default"]
    /\ ui_visible' = [ui_visible EXCEPT ![d] = FALSE]
    /\ ui_thread_handle' = [ui_thread_handle EXCEPT ![d] = FALSE]

handle_client_connection(d, req) ==
    \/ req = "Invalid" /\ HandleInvalid(d)
    \/ req = "Show" /\ HandleShow(d)
    \/ req = "Show" /\ HandleShowSpawnPanics(d)
    \/ req = "Hide" /\ HandleHide(d)
    \/ req = "Status" /\ HandleStatus(d)
    \/ req = "Stop" /\ HandleStop(d)

----------------------------------------------------------------------------
(* daemon.rs:167-208  run_daemon, the loop *)

\* The UI-closed check that resets ui_visible and keeps the thread handle.
LoopRecv_keepHandle(d) ==
    /\ pc[d] = "recv"
    /\ IF ui_closed[d] > 0
       THEN /\ ui_closed' = [ui_closed EXCEPT ![d] = @ - 1]
            /\ ui_visible' = [ui_visible EXCEPT ![d] = FALSE]
       ELSE UNCHANGED <<ui_closed, ui_visible>>
    /\ handled' = [handled EXCEPT ![d] = NoRequest]
    /\ pc' = [pc EXCEPT ![d] = "accept"]
    /\ UNCHANGED <<os, callVars, fileVars, all_apps, ui_thread_handle, uiAlive, clientVars>>

\* The loop without the UI-closed check.
LoopRecv_noTryRecv(d) ==
    /\ pc[d] = "recv"
    /\ handled' = [handled EXCEPT ![d] = NoRequest]
    /\ pc' = [pc EXCEPT ![d] = "accept"]
    /\ UNCHANGED <<os, callVars, fileVars, modelVars, clientVars>>

\* The loop with a blocking recv() while a UI thread handle is held: it goes on
\* only when the session has ended.
LoopRecv_waitsForUi(d) ==
    /\ pc[d] = "recv"
    /\ ui_thread_handle[d] => ui_closed[d] > 0
    /\ IF ui_closed[d] > 0
       THEN /\ ui_closed' = [ui_closed EXCEPT ![d] = @ - 1]
            /\ ui_visible' = [ui_visible EXCEPT ![d] = FALSE]
            /\ ui_thread_handle' = [ui_thread_handle EXCEPT ![d] = FALSE]
       ELSE UNCHANGED <<ui_closed, ui_visible, ui_thread_handle>>
    /\ handled' = [handled EXCEPT ![d] = NoRequest]
    /\ pc' = [pc EXCEPT ![d] = "accept"]
    /\ UNCHANGED <<os, callVars, fileVars, all_apps, uiAlive, clientVars>>

\* daemon.rs:168-175: try_recv on the UI-closed channel.  The response and the
\* stream of the previous iteration are gone.
LoopRecv(d) ==
    /\ pc[d] = "recv"
    /\ IF ui_closed[d] > 0
       THEN /\ ui_closed' = [ui_closed EXCEPT ![d] = @ - 1]
            /\ ui_visible' = [ui_visible EXCEPT ![d] = FALSE]
            /\ ui_thread_handle' = [ui_thread_handle EXCEPT ![d] = FALSE]
       ELSE UNCHANGED <<ui_closed, ui_visible, ui_thread_handle>>
    /\ handled' = [handled EXCEPT ![d] = NoRequest]
    /\ pc' = [pc EXCEPT ![d] = "accept"]
    /\ UNCHANGED <<os, callVars, fileVars, all_apps, uiAlive, clientVars>>

\* A client whose request reaches the listener of d: main.rs:81-87 (the CLI
\* sends only when is_running()) and daemon.rs:126-131 (connect to the socket
\* path, write the request).  The CLI of a macOS build never sends Show
\* (main.rs:37-43).
send_command(d, req) ==
    /\ is_running
    /\ sockFile = d
    /\ Listening(d)
    /\ req = "Show" => os # "macos"

\* daemon.rs:178-193: accept a connection, handle it, write the response.
LoopAccept(d, req) ==
    /\ pc[d] = "accept"
    /\ send_command(d, req)
    /\ handle_client_connection(d, req)
    /\ UNCHANGED <<os, callVars, fileVars, clientVars>>

\* daemon.rs:194-198: WouldBlock: sleep 10 ms, next iteration.
LoopWouldBlock(d) ==
    /\ pc[d] = "accept"
    /\ pc' = [pc EXCEPT ![d] = "recv"]
    /\ UNCHANGED <<os, callVars, fileVars, modelVars, clientVars, handled>>

\* daemon.rs:199-202: any other accept error: log, break.
LoopAcceptError(d) ==
    /\ pc[d] = "accept"
    /\ pc' = [pc EXCEPT ![d] = "cleanSock"]
    /\ UNCHANGED <<os, callVars, fileVars, modelVars, clientVars, handled>>

\* daemon.rs:326-328  cleanup: remove_file(socket_path()).
CleanupSocket(d) ==
    /\ pc[d] = "cleanSock"
    /\ sockFile' = NoPid
    /\ pc' = [pc EXCEPT ![d] = "cleanPid"]
    /\ UNCHANGED <<os, callVars, pidFile, modelVars, clientVars, handled>>

\* The end of process d with the UI left running, as a detached UI would be.
ProcessEnd_leavesUi(d) ==
    /\ UNCHANGED <<uiAlive, ui_closed>>
    /\ all_apps' = [all_apps EXCEPT ![d] = "default"]
    /\ ui_visible' = [ui_visible EXCEPT ![d] = FALSE]
    /\ ui_thread_handle' = [ui_thread_handle EXCEPT ![d] = FALSE]

\* The end of process d: its threads end with it and its memory is gone.
ProcessEnd(d) ==
    /\ uiAlive' = [uiAlive EXCEPT ![d] = 0]
    /\ ui_closed' = [ui_closed EXCEPT ![d] = 0]
    /\ all_apps' = [all_apps EXCEPT ![d] = "default"]
    /\ ui_visible' = [ui_visible EXCEPT ![d] = FALSE]
    /\ ui_thread_handle' = [ui_thread_handle EXCEPT ![d] = FALSE]

\* cleanup() that leaves the PID file.
CleanupPid_keepsPidFile(d) ==
    /\ pc[d] = "cleanPid"
    /\ pc' = [pc EXCEPT ![d] = "exited"]
    /\ ProcessEnd(d)
    /\ UNCHANGED <<os, callVars, fileVars, clientVars, handled>>

\* daemon.rs:329, 207 and main's return: remove_file(pid_file()), Ok(()), the
\* process ends.
CleanupPid(d) ==
    /\ pc[d] = "cleanPid"
    /\ pidFile' = NoPid
    /\ pc' = [pc EXCEPT ![d] = "exited"]
    /\ ProcessEnd(d)
    /\ UNCHANGED <<os, callVars, sockFile, clientVars, handled>>

----------------------------------------------------------------------------
(* The environment *)

\* The UI thread: run_ui returns (Escape, a launch, the window closed, an
\* error or a caught panic) and the thread sends on the channel
\* (daemon.rs:275-290).
UiThreadEnd(d) ==
    /\ ProcessAlive(d)
    /\ uiAlive[d] > 0
    /\ uiAlive' = [uiAlive EXCEPT ![d] = @ - 1]
    /\ ui_closed' = [ui_closed EXCEPT ![d] = @ + 1]
    /\ UNCHANGED <<os, callVars, pc, fileVars, all_apps, ui_visible, ui_thread_handle,
                   clientVars, handled>>

\* daemon.rs:275-289: run_ui of the session just spawned returns Err (or panics)
\* before a window is shown, for instance with no display to open; the thread
\* logs it and sends on the channel.  The Show that spawned it has already been
\* answered.
UiStartFails(d) ==
    /\ pc[d] = "recv"
    /\ handled[d].req = "Show"
    /\ ~handled[d].was_visible
    /\ ~handled[d].ui_failed
    /\ uiAlive[d] > 0
    /\ uiAlive' = [uiAlive EXCEPT ![d] = @ - 1]
    /\ ui_closed' = [ui_closed EXCEPT ![d] = @ + 1]
    /\ handled' = [handled EXCEPT ![d].ui_failed = TRUE]
    /\ UNCHANGED <<os, callVars, pc, fileVars, all_apps, ui_visible,
                   ui_thread_handle, clientVars>>

\* The process is killed (SIGKILL, power loss): nothing of cleanup() runs.
Kill(d) ==
    /\ ProcessAlive(d)
    /\ pc' = [pc EXCEPT ![d] = "killed"]
    /\ ProcessEnd(d)
    /\ handled' = [handled EXCEPT ![d] = NoRequest]
    /\ UNCHANGED <<os, callVars, fileVars, clientVars>>

\* main.rs:37-39,125-138  handle_show_macos: the client runs the UI itself.
handle_show_macos ==
    /\ os = "macos"
    /\ localUi < MaxLocalUi
    /\ localUi' = localUi + 1
    /\ UNCHANGED <<os, callVars, pc, fileVars, modelVars, spawnPending, lastStart, handled>>

\* view::run_ui returns in a client started by handle_show_macos.
LocalUiEnd ==
    /\ localUi > 0
    /\ localUi' = localUi - 1
    /\ UNCHANGED <<os, callVars, pc, fileVars, modelVars, spawnPending, lastStart, handled>>

----------------------------------------------------------------------------
Next ==
    \/ handle_start_already
    \/ handle_start_check
    \/ handle_start_spawn
    \/ handle_start_daemon
    \/ handle_show_macos
    \/ LocalUiEnd
    \/ \E d \in Daemons :
        \/ WritePid(d)
        \/ WritePidFail(d)
        \/ RemoveOldSocket(d)
        \/ Bind(d)
        \/ LoopRecv(d)
        \/ \E req \in Requests : LoopAccept(d, req)
        \/ LoopWouldBlock(d)
        \/ LoopAcceptError(d)
        \/ CleanupSocket(d)
        \/ CleanupPid(d)
        \/ UiThreadEnd(d)
        \/ UiStartFails(d)
        \/ Kill(d)

Spec == Init /\ [][Next]_vars

\* The steps process d takes by itself once it is scheduled: the listener is
\* non-blocking (daemon.rs:148) and the loop sleeps 10 ms between polls, so a
\* live daemon process always takes its next step.
DaemonStep(d) ==
    \/ WritePid(d)
    \/ RemoveOldSocket(d)
    \/ Bind(d)
    \/ LoopRecv(d)
    \/ \E req \in Requests : LoopAccept(d, req)
    \/ LoopWouldBlock(d)
    \/ CleanupSocket(d)
    \/ CleanupPid(d)

FairSpec == Spec /\ \A d \in Daemons : WF_vars(DaemonStep(d))

----------------------------------------------------------------------------
(* The client side of one command, and the bytes on the stream               *)
(* (main.rs:81-107, daemon.rs:126-138, daemon.rs:216-236)                    *)

\* The responses handle_client_connection builds (daemon.rs:220-322).
Responses ==
    {RespOk, RespStatus(TRUE, TRUE), RespStatus(TRUE, FALSE),
     RespStatus(FALSE, FALSE), RespError("Invalid command format"),
     RespError("Failed to read command")}

\* How the connection of send_command goes: connect, write_all, shutdown or
\* read_to_end returns Err, the peer closes without a byte written (from_slice
\* of an empty buffer is Err), or the response arrives.
Outcomes ==
    [conn : {"connect", "write", "shutdown", "read", "eof"}, resp : {NoResponse}]
        \cup [conn : {"ok"}, resp : Responses]

\* daemon.rs:126-138  send_command: Err on every `?`, else the response.
send_command_result(outcome) ==
    IF outcome.conn = "ok"
    THEN [ok |-> TRUE, response |-> outcome.resp]
    ELSE [ok |-> FALSE, response |-> NoResponse]

\* send_daemon_command that acknowledges whatever the daemon answered.
send_daemon_command_ignoresError(running, outcome) ==
    IF ~running
    THEN [exit |-> 0, stdout |-> "LaunchDock is not running", stderr |-> "none"]
    ELSE LET r == send_command_result(outcome) IN
         IF ~r.ok
         THEN [exit |-> 1, stdout |-> "none", stderr |-> "Error"]
         ELSE [exit |-> 0, stdout |-> r.response.data, stderr |-> "none"]

\* main.rs:81-107  send_daemon_command, and main's exit status: 1 when it returns
\* Err, 0 when it returns Ok(()).
send_daemon_command(running, outcome) ==
    IF ~running
    THEN [exit |-> 0, stdout |-> "LaunchDock is not running", stderr |-> "none"]
    ELSE LET r == send_command_result(outcome) IN
         IF ~r.ok
         THEN [exit |-> 1, stdout |-> "none", stderr |-> "Error"]
         ELSE IF ~r.response.success /\ r.response.error # "none"
              THEN [exit |-> 1, stdout |-> "none", stderr |-> r.response.error]
              ELSE [exit |-> 0, stdout |-> r.response.data, stderr |-> "none"]

\* serde_json::to_vec of a DaemonCommand (daemon.rs:128): a unit variant is the
\* JSON string of its name, one element per byte.
CommandBytes ==
    [Show   |-> <<"\"", "S", "h", "o", "w", "\"">>,
     Hide   |-> <<"\"", "H", "i", "d", "e", "\"">>,
     Stop   |-> <<"\"", "S", "t", "o", "p", "\"">>,
     Status |-> <<"\"", "S", "t", "a", "t", "u", "s", "\"">>]

\* serde_json::from_slice::<DaemonCommand> (daemon.rs:228): the command whose
\* JSON the bytes are, or "Invalid".
DecodeCommand(bytes) ==
    IF \E c \in Commands : CommandBytes[c] = bytes
    THEN CHOOSE c \in Commands : CommandBytes[c] = bytes
    ELSE "Invalid"

\* daemon.rs:216-236: one read() into a 1024-byte buffer, which returns what
\* has arrived (first_read bytes of the request), then from_slice of that.
read_request(bytes, first_read) == DecodeCommand(SubSeq(bytes, 1, first_read))

\* serde_json::to_vec of a DaemonResponse (daemon.rs:187), as JSON tokens.
ResponseBytes(r) ==
    <<"{", "success", IF r.success THEN "true" ELSE "false",
      "error", r.error, "data", r.data, "}">>

\* serde_json::from_slice::<DaemonResponse> (daemon.rs:136).
DecodeResponse(bytes) ==
    IF \E r \in Responses : ResponseBytes(r) = bytes
    THEN [ok |-> TRUE,
          response |-> CHOOSE r \in Responses : ResponseBytes(r) = bytes]
    ELSE [ok |-> FALSE, response |-> NoResponse]

\* daemon.rs:133-137: read_to_end returns at the end of the stream only, so
\* with `arrived` bytes of the response read and the peer's end still open the
\* client waits; once the peer has closed it decodes what arrived.
read_response(bytes, arrived, peer_closed) ==
    IF peer_closed
    THEN DecodeResponse(SubSeq(bytes, 1, arrived)) @@ [blocked |-> FALSE]
    ELSE [ok |-> FALSE, response |-> NoResponse, blocked |-> TRUE]

----------------------------------------------------------------------------
(* view.rs:76-146  AppState::filtered_apps.  A string is the sequence of its  *)
(* characters (str::chars); a record of the catalog is its name, and the      *)
(* result lists the records by their index in the catalog (the code returns   *)
(* references); `apps` is self.model.all_apps.                                *)

\* Characters of names: an ASCII capital and a capital outside ASCII.
NameChars == {"B", "É"}

\* char::to_ascii_lowercase on the ASCII letters; every other character is
\* left as it is.
AsciiLower == [c \in {"B", "b"} |-> "b"]

\* The lower-case form of each letter: two letters differ only in case when
\* their lower-case forms are equal.
LowerCase == [c \in {"B", "b", "É", "é"} |->
                IF c \in {"B", "b"} THEN "b" ELSE "é"]

\* A query is typed in lower case, its ASCII letter in upper case too.
QueryChars == {"B"} \cup {LowerCase[c] : c \in NameChars}

\* The number of bytes of a character in UTF-8.
len_utf8 == [c \in {"B", "b", "É", "é"} |-> IF c \in {"B", "b"} THEN 1 ELSE 2]

\* String::len: the number of bytes of the string.
RECURSIVE len(_)
len(str) == IF str = <<>> THEN 0 ELSE len_utf8[Head(str)] + len(Tail(str))

\* The sequences over S of length 0..n.
SeqUpTo(S, n) == UNION {[1..k -> S] : k \in 0..n}

\* str::to_ascii_lowercase
to_ascii_lowercase(str) ==
    [i \in 1..Len(str) |->
        IF str[i] \in DOMAIN AsciiLower THEN AsciiLower[str[i]] ELSE str[i]]

\* The scan that starts at the beginning of the name for every query
\* character.
AdvanceTo_fromStart(app_chars, query_char, app_idx) ==
    LET S == {i \in 0..(Len(app_chars) - 1) : app_chars[i + 1] = query_char}
    IN  IF S = {} THEN Len(app_chars)
        ELSE CHOOSE i \in S : \A j \in S : i <= j

\* view.rs:96-98: the while loop: the first index >= app_idx (from 0) at which
\* app_chars has query_char, or app_chars.len().
AdvanceTo(app_chars, query_char, app_idx) ==
    LET S == {i \in app_idx..(Len(app_chars) - 1) : app_chars[i + 1] = query_char}
    IN  IF S = {} THEN Len(app_chars)
        ELSE CHOOSE i \in S : \A j \in S : i <= j

\* view.rs:90-107: the positions (from 0) of the query characters in
\* app_chars, found_all = false when one is missing.
RECURSIVE find_positions(_, _, _, _)
find_positions(query_chars, app_chars, app_idx, positions) ==
    IF query_chars = <<>>
    THEN [found_all |-> TRUE, positions |-> positions]
    ELSE LET at == AdvanceTo(app_chars, Head(query_chars), app_idx) IN
         IF at >= Len(app_chars)
         THEN [found_all |-> FALSE, positions |-> positions]
         ELSE find_positions(Tail(query_chars), app_chars, at + 1,
                             Append(positions, at))

\* A number every name length in bytes, span and first position + 1 divides:
\* scores are kept as exact multiples of 1/ScoreScale.
RECURSIVE Factorial(_)
Factorial(n) == IF n <= 1 THEN 1 ELSE n * Factorial(n - 1)
ScoreScale == Factorial(2 * MaxNameLen)

Max(a, b) == IF a >= b THEN a ELSE b

\* The score with the span term given to a query of one character too.
score_spanForOneChar(name, positions) ==
    LET n == Len(positions)
        total_span == positions[n] - positions[1] + 1
        consecutive_count ==
            Cardinality({i \in 1..(n - 1) : positions[i + 1] - positions[i] = 1})
        first_match_pos == positions[1]
    IN  (1000 * ScoreScale) \div Max(len(name), 1)
        + (1000 * ScoreScale) \div Max(total_span, 1)
        + consecutive_count * 200 * ScoreScale
        + (50 * ScoreScale) \div (first_match_pos + 1)

\* view.rs:113-137: the score of a match, times ScoreScale.
score(name, positions) ==
    LET n == Len(positions)
        total_span == positions[n] - positions[1] + 1
        consecutive_count ==
            Cardinality({i \in 1..(n - 1) : positions[i + 1] - positions[i] = 1})
        first_match_pos == positions[1]
    IN  (1000 * ScoreScale) \div Max(len(name), 1)
        + (IF n > 1 THEN (1000 * ScoreScale) \div Max(total_span, 1) ELSE 0)
        + consecutive_count * 200 * ScoreScale
        + (50 * ScoreScale) \div (first_match_pos + 1)

\* view.rs:84-139: the loop over the catalog: the matches in catalog order,
\* each with its score.
RECURSIVE matches_of(_, _, _)
matches_of(apps, query_chars, i) ==
    IF i > Len(apps) THEN <<>>
    ELSE LET found == find_positions(query_chars,
                                     to_ascii_lowercase(apps[i]), 0, <<>>)
             rest == matches_of(apps, query_chars, i + 1)
         IN  IF found.found_all
             THEN <<[app |-> i, score |-> score(apps[i], found.positions)]>>
                      \o rest
             ELSE rest

\* One step of the sort with an element put before the elements it equals.
InsertMatch_beforeEqual(sorted, m) ==
    LET k == Cardinality({j \in 1..Len(sorted) : sorted[j].score > m.score})
    IN  SubSeq(sorted, 1, k) \o <<m>> \o SubSeq(sorted, k + 1, Len(sorted))

\* One step of a stable sort by descending score: m, which comes after every
\* element of `sorted` in the input, goes behind the elements whose score is
\* greater or equal.
InsertMatch(sorted, m) ==
    LET k == Cardinality({j \in 1..Len(sorted) : sorted[j].score >= m.score})
    IN  SubSeq(sorted, 1, k) \o <<m>> \o SubSeq(sorted, k + 1, Len(sorted))

\* view.rs:142: matches.sort_by(|a, b| b.1.partial_cmp(&a.1).unwrap()), a
\* stable sort.
RECURSIVE sort_by(_, _)
sort_by(matches, sorted) ==
    IF matches = <<>> THEN sorted
    ELSE sort_by(Tail(matches), InsertMatch(sorted, Head(matches)))

\* filtered_apps without the early return: every record on an empty query.
filtered_apps_noEmptyCheck(apps, search_query) ==
    LET matches == matches_of(apps, to_ascii_lowercase(search_query), 1)
        sorted == sort_by(matches, <<>>)
    IN  IF search_query = <<>> THEN [i \in 1..Len(apps) |-> i]
        ELSE [i \in 1..Len(sorted) |-> sorted[i].app]

\* view.rs:76-146  AppState::filtered_apps
filtered_apps(apps, search_query) ==
    IF search_query = <<>> THEN <<>>
    ELSE LET matches == matches_of(apps, to_ascii_lowercase(search_query), 1)
             sorted == sort_by(matches, <<>>)
         IN  [i \in 1..Len(sorted) |-> sorted[i].app]

----------------------------------------------------------------------------
(* view.rs:52-206 and ui.rs:52-230  AppState and update.  `state` is the      *)
(* AppState: all_apps is the catalog of the model the session was given,      *)
(* current_filtered_apps lists records by their index in it.  update gives    *)
(* the new state, the records it passed to launch_app and the task it         *)
(* returns: "none" or "exit" (iced::exit(), which ends the application).      *)

\* Records of the catalog of a UI session.
MaxShown == 8

\* view.rs:147, ui.rs:145
DISPLAY_COUNT == 7

\* The catalogs of the sessions: names that all have the letter B, in the
\* order of their bytes; none, one, as many as are displayed, and more.
Catalogs ==
    LET names == <<(<<"B">>), <<"B", "B">>, <<"B", "B", "B">>,
                   <<"B", "B", "É">>, <<"B", "É">>, <<"B", "É", "B">>,
                   <<"B", "É", "É">>, <<"É", "B">>, <<"É", "B", "B">>,
                   <<"É", "É", "B">>>>
    IN  {SubSeq(names, 1, k) : k \in {0, 1, DISPLAY_COUNT, MaxShown}}

\* str::parse::<usize> of the string of a character key.
parse_usize(c) ==
    LET digits == ("0" :> 0) @@ ("1" :> 1) @@ ("7" :> 7) @@ ("8" :> 8)
    IN  IF c \in DOMAIN digits THEN [ok |-> TRUE, num |-> digits[c]]
        ELSE [ok |-> FALSE, num |-> 0]

\* keyboard::Key: the named keys update matches, and the character keys: a
\* letter and digits.
Keys ==
    [type : {"Named"},
     value : {"Escape", "Enter", "ArrowDown", "ArrowUp", "Backspace"}]
    \cup [type : {"Character"}, value : {"b", "0", "1", "7", "8"}]

\* enum Message of view.rs (ForceExit) and of ui.rs (IgnoreEvent, modifiers
\* with KeyPressed); a message without a key has NoKey, one without a value
\* the empty string.  The modifiers are given for the character keys, whose
\* arms look at them.
Messages(variant) ==
    LET NoKey == [type |-> "none", value |-> "none"] IN
    [kind : {IF variant = "view" THEN "ForceExit" ELSE "IgnoreEvent"},
     key : {NoKey}, modifiers : {"none"}, value : {<<>>}]
    \cup [kind : {"InputChanged"}, key : {NoKey}, modifiers : {"none"},
          value : SeqUpTo({"b"}, MaxQueryLen) \cup {<<"8">>}]
    \cup [kind : {"KeyPressed"}, key : Keys, modifiers : {"none"},
          value : {<<>>}]
    \cup [kind : {"KeyPressed"}, key : {k \in Keys : k.type = "Character"},
          modifiers : IF variant = "view" THEN {} ELSE {"logo", "control"},
          value : {<<>>}]

\* view.rs:66-74, ui.rs:66-74  AppState::new
AppState_new(model) ==
    [all_apps |-> model.all_apps, selected_index |-> 0, search_query |-> <<>>,
     current_filtered_apps |-> <<>>]

\* What update gives: the state, the records launched and the task.
Updated(state, launched, task) ==
    [state |-> state, launched |-> launched, task |-> task]

Min(a, b) == IF a <= b THEN a ELSE b

\* The arm of InputChanged that keeps the result list of the query before.
InputChanged_keepsList(state, value) ==
    Updated([state EXCEPT !.search_query = value, !.selected_index = 0],
            <<>>, "none")

\* view.rs:156-162, ui.rs:154-160  Message::InputChanged(value)
InputChanged(state, value) ==
    Updated([state EXCEPT !.search_query = value,
                          !.selected_index = 0,
                          !.current_filtered_apps =
                              filtered_apps(state.all_apps, value)],
            <<>>, "none")

\* Enter that launches the first record of the list.
Enter_launchesFirst(state) ==
    IF state.current_filtered_apps # <<>>
    THEN Updated(state, <<state.current_filtered_apps[1]>>, "exit")
    ELSE Updated(state, <<>>, "exit")

\* view.rs:166-171, ui.rs:166-171  Enter: Vec::get(selected_index), from 0.
Enter(state) ==
    IF state.selected_index < Len(state.current_filtered_apps)
    THEN Updated(state,
                 <<state.current_filtered_apps[state.selected_index + 1]>>,
                 "exit")
    ELSE Updated(state, <<>>, "exit")

\* ArrowDown that stops at the last row of the whole list.
ArrowDown_noWrap(state) ==
    IF state.current_filtered_apps # <<>>
    THEN Updated([state EXCEPT !.selected_index =
                     Min(@ + 1, Len(state.current_filtered_apps) - 1)],
                 <<>>, "none")
    ELSE Updated(state, <<>>, "none")

\* view.rs:172-178, ui.rs:173-179  ArrowDown
ArrowDown(state) ==
    IF state.current_filtered_apps # <<>>
    THEN LET display_count ==
                 Min(Len(state.current_filtered_apps), DISPLAY_COUNT)
         IN  Updated([state EXCEPT !.selected_index = (@ + 1) % display_count],
                     <<>>, "none")
    ELSE Updated(state, <<>>, "none")

\* view.rs:179-189, ui.rs:181-191  ArrowUp
ArrowUp(state) ==
    IF state.current_filtered_apps # <<>>
    THEN LET display_count ==
                 Min(Len(state.current_filtered_apps), DISPLAY_COUNT)
         IN  Updated([state EXCEPT !.selected_index =
                         IF @ = 0 THEN display_count - 1 ELSE @ - 1],
                     <<>>, "none")
    ELSE Updated(state, <<>>, "none")

\* view.rs:192-200, ui.rs:204-214: the shortcut of a character key: the record
\* it launches, Nothing when the key is no shortcut.
shortcut(state, c) ==
    LET parsed == parse_usize(c) IN
    IF /\ parsed.ok
       /\ parsed.num >= 1
       /\ parsed.num <= Min(Len(state.current_filtered_apps), DISPLAY_COUNT)
    THEN Some(state.current_filtered_apps[parsed.num])
    ELSE Nothing

\* The character arm that takes a digit as a row counted from 0.
Character_countsFromZero(state, c) ==
    LET parsed == parse_usize(c) IN
    IF /\ parsed.ok
       /\ parsed.num < Min(Len(state.current_filtered_apps), DISPLAY_COUNT)
    THEN Updated(state, <<state.current_filtered_apps[parsed.num + 1]>>,
                 "exit")
    ELSE InputChanged(state, Append(state.search_query, c))

\* view.rs:190-206  Key::Character(c)
Character(state, c) ==
    IF shortcut(state, c).is_some
    THEN Updated(state, <<shortcut(state, c).value>>, "exit")
    ELSE InputChanged(state, Append(state.search_query, c))

\* view.rs:149-209  update
update(state, message) ==
    CASE message.kind = "ForceExit" -> Updated(state, <<>>, "exit")
      [] message.kind = "InputChanged" -> InputChanged(state, message.value)
      [] message.kind = "KeyPressed" ->
            CASE message.key.type = "Character" ->
                    Character(state, message.key.value)
              [] message.key.value = "Escape" -> Updated(state, <<>>, "exit")
              [] message.key.value = "Enter" -> Enter(state)
              [] message.key.value = "ArrowDown" -> ArrowDown(state)
              [] message.key.value = "ArrowUp" -> ArrowUp(state)
              [] OTHER -> Updated(state, <<>>, "none")

\* ui.rs:148-230  update
ui_update(state, message) ==
    CASE message.kind = "IgnoreEvent" -> Updated(state, <<>>, "none")
      [] message.kind = "InputChanged" -> InputChanged(state, message.value)
      [] message.kind = "KeyPressed" ->
            CASE message.key.type = "Character" ->
                    IF message.modifiers = "logo"
                    THEN IF shortcut(state, message.key.value).is_some
                         THEN Updated(state,
                                  <<shortcut(state, message.key.value).value>>,
                                  "exit")
                         ELSE Updated(state, <<>>, "none")
                    ELSE IF message.modifiers = "none"
                    THEN InputChanged(state, Append(state.search_query,
                                                    message.key.value))
                    ELSE Updated(state, <<>>, "none")
              [] message.key.value = "Escape" -> Updated(state, <<>>, "exit")
              [] message.key.value = "Enter" -> Enter(state)
              [] message.key.value = "ArrowDown" -> ArrowDown(state)
              [] message.key.value = "ArrowUp" -> ArrowUp(state)
              [] message.key.value = "Backspace" ->
                    \* String::pop, then as InputChanged does
                    InputChanged(state,
                                 SubSeq(state.search_query, 1,
                                        Len(state.search_query) - 1))
              [] OTHER -> Updated(state, <<>>, "none")

----------------------------------------------------------------------------
(* model.rs:42-102, 184-398  discover_apps.  The file system is the input: a  *)
(* sequence of application directories, each unreadable or a sequence of      *)
(* files, and the states of the icon files that discover_comprehensive_icon   *)
(* looks for, in the order it tries them.  A name is a whole string; a        *)
(* record's path is the place <<directory, entry>> of the file it was made    *)
(* from.                                                                      *)

MaxDirs == 1
MaxEntries == 2
MaxCandidates == 2

\* The names, in the order of their bytes (String::cmp).
NamesInByteOrder ==
    <<"", "B", "Lock Screen", "Logout", "Restart", "Shutdown", "Sleep", "É">>

\* The stem of a file name is never empty.
FileStems == {"B", "É"}

\* A file with the execute bit that is not a desktop entry.
ExecutableFile(stem) ==
    [ok |-> TRUE, extension |-> "", executable |-> TRUE, file_stem |-> stem]

\* A .desktop file: for each key the value of its last line, None without
\* such a line; Exec is "found" when its command is an absolute path or is
\* found in PATH, "unresolved" when it is not.
DesktopFile(name, exec, no_display, hidden, icon) ==
    [ok |-> TRUE, extension |-> "desktop", executable |-> FALSE,
     readable |-> TRUE, Name |-> name, Exec |-> exec,
     NoDisplay |-> no_display, Hidden |-> hidden, Icon |-> icon]

\* The state of an icon file: missing, or there and a valid image or not.
IconFiles == {"missing", "corrupt", "valid"}

\* The files of directories of several files: a directory entry that cannot
\* be read, executable files, and desktop entries without an Icon key that
\* are plain, have an empty name, or are marked no-display or hidden.
Files ==
    {[ok |-> FALSE]}
    \cup {ExecutableFile(stem) : stem \in FileStems}
    \cup {DesktopFile(name, "found", None, None, None) : name \in {"", "B"}}
    \cup {DesktopFile("B", "found", "true", None, None),
          DesktopFile("B", "found", None, "true", None)}

\* The desktop entries of directories of one file: every combination of the
\* keys, and the file that cannot be read.
DesktopFiles ==
    {[ok |-> TRUE, extension |-> "desktop", executable |-> FALSE,
      readable |-> FALSE]}
    \cup {DesktopFile(name, exec, no_display, hidden, icon) :
            name \in {None, "", "B"}, exec \in {None, "unresolved", "found"},
            no_display \in {None, "false", "true"}, hidden \in {None, "true"},
            icon \in {None} \cup IconFiles}

\* A directory: one that read_dir fails on, or its files.
Directories ==
    {[readable |-> FALSE]}
    \cup [readable : {TRUE}, entries : SeqUpTo(Files, MaxEntries)]

\* The file systems a catalog is built from: directories of the files above
\* with no icon file anywhere, and one directory with one desktop entry with
\* icon files.
FileSystems ==
    [dirs : SeqUpTo(Directories, MaxDirs), icons : {<<>>}]
    \cup [dirs : {<<[readable |-> TRUE, entries |-> <<file>>]>> :
                    file \in DesktopFiles},
          icons : SeqUpTo(IconFiles, MaxCandidates)]

\* model.rs:304-315  is_app
is_app(target_os, file) ==
    IF target_os = "macos"
    THEN file.extension = "app" \/ file.executable
    ELSE file.executable

\* model.rs:248-263: the closure of filter_map for the entries from e on.
RECURSIVE scan_entries(_, _, _, _)
scan_entries(target_os, entries, d, e) ==
    IF e > Len(entries) THEN <<>>
    ELSE (IF entries[e].ok /\ is_app(target_os, entries[e])
          THEN <<[name |-> entries[e].file_stem, path |-> <<d, e>>,
                  description |-> None, icon |-> None]>>
          ELSE <<>>)
         \o scan_entries(target_os, entries, d, e + 1)

\* model.rs:242-265  scan_directory
scan_directory(target_os, dirs, d) ==
    IF ~dirs[d].readable THEN <<>>
    ELSE scan_entries(target_os, dirs[d].entries, d, 1)

\* model.rs:356-398  parse_desktop_entry
parse_desktop_entry(file, d, e) ==
    LET no_display == file.NoDisplay = "true" IN
    IF ~file.readable THEN Nothing
    ELSE IF no_display THEN Nothing
    ELSE IF file.Name = None THEN Nothing
    ELSE IF file.Exec = None THEN Nothing
    ELSE IF file.Exec = "unresolved" THEN Nothing
    ELSE Some([name |-> file.Name, path |-> <<d, e>>,
               description |-> None, icon |-> file.Icon])

\* model.rs:342-349: the desktop entries of one directory from entry e on.
RECURSIVE desktop_entries_of(_, _, _)
desktop_entries_of(entries, d, e) ==
    IF e > Len(entries) THEN <<>>
    ELSE (IF /\ entries[e].ok
             /\ entries[e].extension = "desktop"
             /\ parse_desktop_entry(entries[e], d, e).is_some
          THEN <<parse_desktop_entry(entries[e], d, e).value>>
          ELSE <<>>)
         \o desktop_entries_of(entries, d, e + 1)

\* model.rs:335-354  discover_desktop_entries, from directory d on.
RECURSIVE discover_desktop_entries(_, _)
discover_desktop_entries(dirs, d) ==
    IF d > Len(dirs) THEN <<>>
    ELSE (IF dirs[d].readable
          THEN desktop_entries_of(dirs[d].entries, d, 1)
          ELSE <<>>)
         \o discover_desktop_entries(dirs, d + 1)

\* The scanned records of the directories from d on, in scan order.
RECURSIVE scan_all(_, _, _)
scan_all(target_os, dirs, d) ==
    IF d > Len(dirs) THEN <<>>
    ELSE scan_directory(target_os, dirs, d) \o scan_all(target_os, dirs, d + 1)

\* model.rs:52-56: one pass of the loop over the scanned records: apps and
\* seen_names after it.
insert_scanned(merged, app) ==
    IF app.name \notin merged.seen_names
    THEN [apps |-> Append(merged.apps, app),
          seen_names |-> merged.seen_names \cup {app.name}]
    ELSE merged

\* model.rs:50-57: the loop over the scanned records.
RECURSIVE merge_scanned(_, _)
merge_scanned(merged, discovered) ==
    IF discovered = <<>> THEN merged
    ELSE merge_scanned(insert_scanned(merged, Head(discovered)),
                       Tail(discovered))

\* A pass of the loop over the desktop entries that pushes every entry.
insert_desktop_pushesAll(merged, app) ==
    [apps |-> Append(merged.apps, app),
     seen_names |-> merged.seen_names \cup {app.name}]

\* model.rs:62-66: one pass of the loop over the desktop entries.
insert_desktop(merged, app) ==
    LET apps == merged.apps
        found == {i \in 1..Len(apps) : apps[i].name = app.name}
    IN  IF found # {}
        THEN LET pos == CHOOSE i \in found : \A j \in found : i <= j
             IN  [merged EXCEPT !.apps[pos] = app]
        ELSE IF app.name \notin merged.seen_names
        THEN [apps |-> Append(apps, app),
              seen_names |-> merged.seen_names \cup {app.name}]
        ELSE merged

\* model.rs:59-68: the loop over the desktop entries.
RECURSIVE merge_desktop(_, _)
merge_desktop(merged, desktop_apps) ==
    IF desktop_apps = <<>> THEN merged
    ELSE merge_desktop(insert_desktop(merged, Head(desktop_apps)),
                       Tail(desktop_apps))

\* model.rs:184-218  discover_comprehensive_icon: the first candidate that
\* exists; icons[k] is the state of the k-th file the loops try.  On macOS
\* (model.rs:105-110) only an .app bundle is searched, and no file here is
\* one.
discover_comprehensive_icon(target_os, icons) ==
    LET existing == {k \in 1..Len(icons) : icons[k] # "missing"} IN
    IF target_os = "macos" \/ existing = {} THEN Nothing
    ELSE LET k == CHOOSE i \in existing : \A j \in existing : i <= j
         IN  Some([candidate |-> k, state |-> icons[k]])

\* model.rs:97-102  icon_path_exists
icon_path_exists(icon) == icon # None /\ icon # "missing"

\* model.rs:78-94  resolve_app_icons; an icon that is kept is the file its
\* Icon key names (candidate 0), in the state that file is in.
resolve_app_icons(target_os, apps, icons) ==
    [i \in 1..Len(apps) |->
        IF apps[i].icon = None \/ ~icon_path_exists(apps[i].icon)
        THEN [apps[i] EXCEPT
                 !.icon = discover_comprehensive_icon(target_os, icons)]
        ELSE [apps[i] EXCEPT
                 !.icon = Some([candidate |-> 0, state |-> apps[i].icon])]]

\* String::cmp on names: a comes before b, or is b.
name_le(a, b) ==
    \E i, j \in 1..Len(NamesInByteOrder) :
        NamesInByteOrder[i] = a /\ NamesInByteOrder[j] = b /\ i <= j

\* One step of a stable sort by name: app goes behind the records whose name
\* is less or equal.
InsertByName(sorted, app) ==
    LET k == Cardinality({j \in 1..Len(sorted) : name_le(sorted[j].name, app.name)})
    IN  SubSeq(sorted, 1, k) \o <<app>> \o SubSeq(sorted, k + 1, Len(sorted))

\* model.rs:72: apps.sort_by(|a, b| a.name.cmp(&b.name))
RECURSIVE sort_by_name(_, _)
sort_by_name(apps, sorted) ==
    IF apps = <<>> THEN sorted
    ELSE sort_by_name(Tail(apps), InsertByName(sorted, Head(apps)))

\* model.rs:42-75  discover_apps
discover_apps(target_os, dirs, icons) ==
    LET scanned == merge_scanned([apps |-> <<>>, seen_names |-> {}],
                                 scan_all(target_os, dirs, 1))
        merged == IF target_os = "linux"
                  THEN merge_desktop(scanned, discover_desktop_entries(dirs, 1))
                  ELSE scanned
    IN  sort_by_name(resolve_app_icons(target_os, merged.apps, icons), <<>>)

----------------------------------------------------------------------------
(* platforms/linux.rs:10-25 and platforms/windows.rs:8-13, 60-104             *)
(* discover_applications of the platform modules behind apps.rs: the          *)
(* records are AppInfo, a name and the path of the executable.                *)

\* linux.rs:119-149: what the closure of discover_desktop_entries gives for a
\* desktop file: nothing for a file that cannot be read or decoded or is no
\* application entry, Err when its command cannot be resolved, or a record.
DesktopResults ==
    {[result |-> "None"], [result |-> "Err"]}
    \cup [result : {"Ok"}, name : FileStems, exe_path : {"/bin/b", "/bin/é"}]

\* linux.rs:82-117  special_commands; user: the user name is known.
linux_special_commands(user) ==
    << [result |-> "Ok", name |-> "Shutdown", exe_path |-> "systemctl poweroff"],
       [result |-> "Ok", name |-> "Restart", exe_path |-> "systemctl reboot"],
       [result |-> "Ok", name |-> "Lock Screen",
        exe_path |-> "loginctl lock-session"] >>
    \o (IF user
        THEN <<[result |-> "Ok", name |-> "Logout",
                exe_path |-> "loginctl terminate-user"]>>
        ELSE <<>>)

\* linux.rs:13-22: the loop over the results: unique_apps, a map from
\* exe_path to the record, after it.
RECURSIVE linux_unique_apps(_, _)
linux_unique_apps(unique_apps, results) ==
    IF results = <<>> THEN unique_apps
    ELSE LET r == Head(results) IN
         linux_unique_apps(
             IF r.result = "Ok" /\ r.exe_path \notin DOMAIN unique_apps
             THEN unique_apps
                  @@ (r.exe_path :> [name |-> r.name, exe_path |-> r.exe_path])
             ELSE unique_apps,
             Tail(results))

\* The sequences that hold each element of the set S once.
RECURSIVE Orderings(_)
Orderings(S) ==
    IF S = {} THEN {<<>>}
    ELSE UNION {{<<x>> \o seq : seq \in Orderings(S \ {x})} : x \in S}

\* linux.rs:10-25  discover_applications: the values that can be returned;
\* into_values gives the records of the HashMap in an arbitrary order.
linux_discover_applications(entries, user) ==
    LET unique_apps ==
            linux_unique_apps(<<>>,
                SelectSeq(entries, LAMBDA r : r.result # "None")
                    \o linux_special_commands(user))
    IN  {[ok |-> TRUE, apps |-> apps] :
            apps \in Orderings({unique_apps[p] : p \in DOMAIN unique_apps})}

\* A key under Uninstall in the registry: its values, None when missing.
RegistryKeys == [DisplayName : {None, "É"}, InstallLocation : {None, "found"}]

\* A directory under Program Files: one that cannot be read, or one with or
\* without an .exe file in it.
ProgramDirs == {"unreadable", "no exe", "exe"}

\* windows.rs:68-92  parse_registry_entry
windows_parse_registry_entry(key) ==
    IF key.DisplayName # None /\ key.InstallLocation # None
    THEN [result |-> "Ok", name |-> key.DisplayName, exe_path |-> "/bin/é"]
    ELSE [result |-> "None"]

\* windows.rs:94-105  directory_to_app, the name of the directory being "B".
windows_directory_to_app(dir) ==
    IF dir = "unreadable" THEN [result |-> "Err"]
    ELSE IF dir = "exe"
    THEN [result |-> "Ok", name |-> "B", exe_path |-> "/bin/b"]
    ELSE [result |-> "None"]

\* windows.rs:23-42  special_commands
windows_special_commands ==
    << [result |-> "Ok", name |-> "Shutdown", exe_path |-> "shutdown /s /t 0"],
       [result |-> "Ok", name |-> "Logout", exe_path |-> "shutdown /l"],
       [result |-> "Ok", name |-> "Restart", exe_path |-> "shutdown /r /t 0"],
       [result |-> "Ok", name |-> "Sleep", exe_path |-> "rundll32.exe powrprof.dll"],
       [result |-> "Ok", name |-> "Lock Screen",
        exe_path |-> "rundll32.exe user32.dll"] >>

\* Iterator::collect into Result<Vec<_>, _>: Err when one item is Err.
collect(results) ==
    IF \E i \in 1..Len(results) : results[i].result = "Err"
    THEN [ok |-> FALSE]
    ELSE [ok |-> TRUE,
          apps |-> [i \in 1..Len(results) |->
                       [name |-> results[i].name,
                        exe_path |-> results[i].exe_path]]]

\* windows.rs:8-13  discover_applications; filter_map and transpose drop the
\* items that are Ok(None).
windows_discover_applications(registry, program_files) ==
    collect(
        SelectSeq([i \in 1..Len(registry) |->
                      windows_parse_registry_entry(registry[i])],
                  LAMBDA r : r.result # "None")
        \o SelectSeq([i \in 1..Len(program_files) |->
                         windows_directory_to_app(program_files[i])],
                     LAMBDA r : r.result # "None")
        \o windows_special_commands)

----------------------------------------------------------------------------
(* ipc.rs:46-64, 82-171  the byte protocol of the responses.  A byte is a     *)
(* number 0..255 and a stream the sequence of the bytes written to it.  A     *)
(* Response is Ok or Error with its message, or Status with its two flags.    *)
(* The String of a response to send is given as a text and the number of      *)
(* times it is repeated; as_bytes gives its UTF-8 bytes.                      *)

\* ipc.rs:46-53  ResponseType as u8
ResponseType == [Ok |-> 128, Status |-> 129, Error |-> 130]

\* enum Response (ipc.rs:56-64).  The messages: the letter "a" (97) 0, 1 and
\* 2 times and around the lengths that fill one byte and two bytes of the
\* prefix, and the letter "é" (195, 169).
IpcResponses ==
    [type : {"Ok", "Error"},
     msg : [text : {<<97>>},
            repeat : {0, 1, 2, 255, 256, 65535, 65536, 65537}]
               \cup {[text |-> <<195, 169>>, repeat |-> 1]}]
        \cup [type : {"Status"}, daemon_running : BOOLEAN,
              ui_visible : BOOLEAN]

\* str::as_bytes
as_bytes(msg) ==
    [i \in 1..(Len(msg.text) * msg.repeat) |->
        msg.text[((i - 1) % Len(msg.text)) + 1]]

\* send_response with the length written low byte first.
ipc_send_response_littleEndian(response) ==
    IF response.type = "Status"
    THEN <<ResponseType.Status,
           (IF response.daemon_running THEN 1 ELSE 0)
               + (IF response.ui_visible THEN 2 ELSE 0)>>
    ELSE LET length == Len(as_bytes(response.msg)) % 65536
         IN  <<ResponseType[response.type], length % 256, length \div 256>>
                 \o as_bytes(response.msg)

\* ipc.rs:141-171  send_response: the bytes it writes.  `as u16` keeps the low
\* 16 bits of msg.len(); to_be_bytes gives the high byte first.
ipc_send_response(response) ==
    IF response.type = "Status"
    THEN <<ResponseType.Status,
           (IF response.daemon_running THEN 1 ELSE 0)
               + (IF response.ui_visible THEN 2 ELSE 0)>>
    ELSE LET length == Len(as_bytes(response.msg)) % 65536
         IN  <<ResponseType[response.type], length \div 256, length % 256>>
                 \o as_bytes(response.msg)

\* String::from_utf8_lossy over the bytes of "a" (97) and "é" (195, 169): a
\* byte that is not part of a complete character becomes U+FFFD (65533, kept
\* as one element).
from_utf8_lossy(bytes) ==
    [i \in 1..Len(bytes) |->
        IF \/ bytes[i] = 195 /\ (i = Len(bytes) \/ bytes[i + 1] # 169)
           \/ bytes[i] = 169 /\ (i = 1 \/ bytes[i - 1] # 195)
        THEN 65533
        ELSE bytes[i]]

\* ipc.rs:88-137  send_command, from the first read_exact on: the response
\* decoded from the stream, its message as bytes, and the number of bytes
\* read, or the io::Error:
\* UnexpectedEof when read_exact finds too few bytes, InvalidData for a first
\* byte that is no response type.
ipc_send_command(stream) ==
    LET Err(kind) == [ok |-> FALSE, error |-> kind]
        length == stream[2] * 256 + stream[3]
    IN  IF Len(stream) < 1 THEN Err("UnexpectedEof")
        ELSE IF stream[1] \in {ResponseType.Ok, ResponseType.Error}
        THEN IF Len(stream) < 3 \/ Len(stream) < 3 + length
             THEN Err("UnexpectedEof")
             ELSE [ok |-> TRUE, read |-> 3 + length,
                   response |->
                       [type |-> IF stream[1] = ResponseType.Ok THEN "Ok"
                                 ELSE "Error",
                        msg |-> from_utf8_lossy(SubSeq(stream, 4, 3 + length))]]
        ELSE IF stream[1] = ResponseType.Status
        THEN IF Len(stream) < 2 THEN Err("UnexpectedEof")
             ELSE [ok |-> TRUE, read |-> 2,
                   response |->
                       [type |-> "Status",
                        daemon_running |-> stream[2] % 2 = 1,
                        ui_visible |-> (stream[2] \div 2) % 2 = 1]]
        ELSE Err("InvalidData")

----------------------------------------------------------------------------
(* Calls of the functions above, one call per behaviour *)

daemonVars == <<os, pc, fileVars, modelVars, clientVars, handled>>

Calls ==
    [fn : {"send_daemon_command"}, cmd : Commands, running : BOOLEAN,
     outcome : Outcomes]
    \cup UNION {[fn : {"read_request"}, cmd : {c},
                 first_read : 1..Len(CommandBytes[c])] : c \in Commands}
    \cup UNION {[fn : {"read_response"}, resp : {r},
                 arrived : 0..Len(ResponseBytes(r)), peer_closed : BOOLEAN] :
                    r \in Responses}
    \cup [fn : {"filtered_apps"},
          all_apps : SeqUpTo(SeqUpTo(NameChars, MaxNameLen), MaxCatalog),
          search_query : SeqUpTo(QueryChars, MaxQueryLen)]
    \cup [fn : {"ipc::send_response"}, response : IpcResponses]
    \cup [fn : {"ipc::send_command"},
          sent : {Some(r) : r \in IpcResponses}, then : {<<>>, <<128>>}]
    \cup [fn : {"ipc::send_command"}, sent : {Nothing},
          then : {<<first>> \o rest :
                     first \in {0, 1, 127, 131, 255},
                     rest \in {<<>>, <<0, 0>>}}]

FnInit ==
    /\ call \in Calls
    /\ result = NoResult
    /\ session = Nothing
    /\ os = "linux"
    /\ pc = [d \in Daemons |-> "unborn"]
    /\ pidFile = NoPid
    /\ sockFile = NoPid
    /\ all_apps = [d \in Daemons |-> "default"]
    /\ ui_visible = [d \in Daemons |-> FALSE]
    /\ ui_thread_handle = [d \in Daemons |-> FALSE]
    /\ ui_closed = [d \in Daemons |-> 0]
    /\ uiAlive = [d \in Daemons |-> 0]
    /\ spawnPending = 0
    /\ localUi = 0
    /\ lastStart = NoStart
    /\ handled = [d \in Daemons |-> NoRequest]

Returns(value) ==
    /\ ~result.returned
    /\ result' = [returned |-> TRUE, value |-> value]
    /\ UNCHANGED <<call, session, daemonVars>>

Call_send_daemon_command ==
    /\ call.fn = "send_daemon_command"
    /\ Returns(send_daemon_command(call.running, call.outcome))

Call_read_request ==
    /\ call.fn = "read_request"
    /\ Returns(read_request(CommandBytes[call.cmd], call.first_read))

Call_read_response ==
    /\ call.fn = "read_response"
    /\ Returns(read_response(ResponseBytes(call.resp), call.arrived,
                             call.peer_closed))

Call_filtered_apps ==
    /\ call.fn = "filtered_apps"
    /\ Returns(filtered_apps(call.all_apps, call.search_query))

Call_ipc_send_response ==
    /\ call.fn = "ipc::send_response"
    /\ Returns(ipc_send_response(call.response))

\* The stream send_command reads: the bytes send_response wrote for the
\* response that was sent, if one was, and the bytes that come then.
Call_ipc_send_command ==
    /\ call.fn = "ipc::send_command"
    /\ Returns(ipc_send_command(
                   (IF call.sent.is_some
                    THEN ipc_send_response(call.sent.value) ELSE <<>>)
                       \o call.then))

FnNext ==
    \/ Call_filtered_apps
    \/ Call_ipc_send_response
    \/ Call_ipc_send_command
    \/ Call_send_daemon_command
    \/ Call_read_request
    \/ Call_read_response

FnSpec == FnInit /\ [][FnNext]_vars

----------------------------------------------------------------------------
(* Calls of the catalog builders, one call per behaviour *)

BuildCalls ==
    UNION {[fn : {"discover_apps"}, target_os : {"linux", "macos"},
            dirs : {fs.dirs}, icons : {fs.icons}] : fs \in FileSystems}
    \cup [fn : {"linux::discover_applications"},
          entries : SeqUpTo(DesktopResults, MaxEntries), user : BOOLEAN]
    \cup [fn : {"windows::discover_applications"},
          registry : SeqUpTo(RegistryKeys, MaxEntries),
          program_files : SeqUpTo(ProgramDirs, MaxEntries)]

BuildInit ==
    /\ call \in BuildCalls
    /\ result = NoResult
    /\ session = Nothing
    /\ os = "linux"
    /\ pc = [d \in Daemons |-> "unborn"]
    /\ pidFile = NoPid
    /\ sockFile = NoPid
    /\ all_apps = [d \in Daemons |-> "default"]
    /\ ui_visible = [d \in Daemons |-> FALSE]
    /\ ui_thread_handle = [d \in Daemons |-> FALSE]
    /\ ui_closed = [d \in Daemons |-> 0]
    /\ uiAlive = [d \in Daemons |-> 0]
    /\ spawnPending = 0
    /\ localUi = 0
    /\ lastStart = NoStart
    /\ handled = [d \in Daemons |-> NoRequest]

Call_discover_apps ==
    /\ call.fn = "discover_apps"
    /\ Returns(discover_apps(call.target_os, call.dirs, call.icons))

Call_linux_discover_applications ==
    /\ call.fn = "linux::discover_applications"
    /\ ~result.returned
    /\ \E value \in linux_discover_applications(call.entries, call.user) :
           Returns(value)

Call_windows_discover_applications ==
    /\ call.fn = "windows::discover_applications"
    /\ Returns(windows_discover_applications(call.registry, call.program_files))

BuildNext ==
    \/ Call_discover_apps
    \/ Call_linux_discover_applications
    \/ Call_windows_discover_applications

BuildSpec == BuildInit /\ [][BuildNext]_vars

----------------------------------------------------------------------------
(* UI sessions of one model, one after the other: run_ui, the messages the    *)
(* session is given, its end.  The session keeps the last message update was  *)
(* given, the records passed to launch_app, and of the session before it      *)
(* whether it ended with an empty query and with the selected index 0.        *)

\* update has been given no message.
NoMessage ==
    [kind |-> "none", key |-> [type |-> "none", value |-> "none"],
     modifiers |-> "none", value |-> <<>>]

UiInit ==
    /\ session \in [variant : {"view", "ui"},
                    model : [all_apps : Catalogs],
                    phase : {"not started"},
                    state : {Nothing},
                    launched : {<<>>},
                    message : {NoMessage},
                    ended_with : {[ended |-> FALSE]}]
    /\ call = NoCall
    /\ result = NoResult
    /\ os = "linux"
    /\ pc = [d \in Daemons |-> "unborn"]
    /\ pidFile = NoPid
    /\ sockFile = NoPid
    /\ all_apps = [d \in Daemons |-> "default"]
    /\ ui_visible = [d \in Daemons |-> FALSE]
    /\ ui_thread_handle = [d \in Daemons |-> FALSE]
    /\ ui_closed = [d \in Daemons |-> 0]
    /\ uiAlive = [d \in Daemons |-> 0]
    /\ spawnPending = 0
    /\ localUi = 0
    /\ lastStart = NoStart
    /\ handled = [d \in Daemons |-> NoRequest]

\* A session that takes up the AppState the session before it ended with.
run_ui_resumes ==
    /\ session.phase \in {"not started", "closed"}
    /\ session' =
           [session EXCEPT
               !.phase = "open",
               !.state = IF session.phase = "closed" THEN @
                         ELSE AppState_new(session.model),
               !.launched = <<>>,
               !.message = NoMessage,
               !.ended_with =
                   IF session.phase = "closed"
                   THEN [ended |-> TRUE,
                         query_empty |-> session.state.search_query = <<>>,
                         selected_zero |-> session.state.selected_index = 0]
                   ELSE [ended |-> FALSE]]
    /\ UNCHANGED <<call, result, daemonVars>>

\* daemon.rs:250-279, main.rs:133, view.rs:17-50, ui.rs:17-50  run_ui on a
\* clone of the model: the application starts with AppState::new(model).
run_ui ==
    /\ session.phase \in {"not started", "closed"}
    /\ session' =
           [session EXCEPT
               !.phase = "open",
               !.state = AppState_new(session.model),
               !.launched = <<>>,
               !.message = NoMessage,
               !.ended_with =
                   IF session.phase = "closed"
                   THEN [ended |-> TRUE,
                         query_empty |-> session.state.search_query = <<>>,
                         selected_zero |-> session.state.selected_index = 0]
                   ELSE [ended |-> FALSE]]
    /\ UNCHANGED <<call, result, daemonVars>>

\* The application gives update a message; the task "exit" ends the session.
\* A character key is followed while the query has room for it.
Update(message) ==
    /\ session.phase = "open"
    /\ message.key.type = "Character" =>
           Len(session.state.search_query) < MaxQueryLen
    /\ LET updated == IF session.variant = "view"
                      THEN update(session.state, message)
                      ELSE ui_update(session.state, message)
       IN  session' =
               [session EXCEPT
                   !.state = updated.state,
                   !.launched = @ \o updated.launched,
                   !.message = message,
                   !.phase = IF updated.task = "exit" THEN "closed" ELSE @]
    /\ UNCHANGED <<call, result, daemonVars>>

\* view.rs:32, ui.rs:32  exit_on_close_request: the window is closed.
CloseRequested ==
    /\ session.phase = "open"
    /\ session' = [session EXCEPT !.phase = "closed",
                                  !.message = [NoMessage EXCEPT
                                                  !.kind = "CloseRequested"]]
    /\ UNCHANGED <<call, result, daemonVars>>

UiNext ==
    \/ run_ui
    \/ \E message \in Messages(session.variant) : Update(message)
    \/ CloseRequested

UiSpec == UiInit /\ [][UiNext]_vars

----------------------------------------------------------------------------
(* Properties *)

\* The step in which d handles req: a step of the accept position that leaves
\* the handled request behind.
Handles(d, req) == pc[d] = "accept" /\ handled'[d].req = req

\* The PID file names a process that is not alive.
StalePid == pidFile # NoPid /\ ~ProcessAlive(pidFile)


\* C1: for every interleaving of `launchdock start` invocations, from a terminal
\* or not, at most one daemon process is executing the accept loop of
\* run_daemon at any time.
C1_SingleDaemon == Cardinality({d \in Daemons : Running(d)}) <= 1

C3_VisibleIffHandle ==
    \A d \in Daemons :
        /\ ui_visible[d] = ui_thread_handle[d]
        /\ uiAlive[d] + ui_closed[d] = (IF ui_thread_handle[d] THEN 1 ELSE 0)

\* A running daemon whose UI thread has ended and whose loop has not received
\* the signal yet: visible, with the handle.
C3_Witness ==
    \E d \in Daemons :
        /\ Running(d)
        /\ ui_closed[d] = 1
        /\ ui_visible[d]
        /\ ui_thread_handle[d]

\* C4: a daemon that handles Stop leaves the accept loop, its cleanup removes
\* the socket file and the PID file, and the process ends (unless it is killed
\* first); once it has ended no PID file names it and no socket file is its.
C4_StopCleansUp ==
    /\ [][\A d \in Daemons :
            /\ Handles(d, "Stop") => pc'[d] = "cleanSock"
            /\ (pc[d] = "cleanSock" /\ pc'[d] = "cleanPid") => sockFile' = NoPid
            /\ (pc[d] = "cleanPid" /\ pc'[d] = "exited") => pidFile' = NoPid
            /\ pc'[d] = "exited" => (pidFile' # d /\ sockFile' # d)]_vars
    /\ \A d \in Daemons :
           (handled[d].req = "Stop") ~> (pc[d] \in {"exited", "killed"})

\* Two daemons have ended after handling Stop, one with ui_visible true and one
\* with ui_visible false.
C4_Witness ==
    \E d, e \in Daemons :
        /\ pc[d] = "exited" /\ handled[d].req = "Stop" /\ handled[d].was_visible
        /\ pc[e] = "exited" /\ handled[e].req = "Stop" /\ ~handled[e].was_visible

\* C5: a daemon that handles Stop while its UI thread is running ends, and no
\* UI thread it started is running then.
C5_StopEndsUi ==
    \A d \in Daemons :
        (handled[d].req = "Stop" /\ handled[d].ui_running)
            ~> (~ProcessAlive(d) /\ uiAlive[d] = 0)

\* A daemon has ended after handling Stop with its UI thread running.
C5_Witness ==
    \E d \in Daemons :
        /\ pc[d] = "exited"
        /\ handled[d].req = "Stop"
        /\ handled[d].ui_running
        /\ uiAlive[d] = 0

\* C6: when the UI thread ends while the daemon is in its loop with ui_visible
\* true, the loop eventually sets ui_visible to false and clears the handle
\* (unless the daemon leaves the loop first), and a Show handled with ui_visible
\* false spawns a UI thread (unless the OS cannot create the thread).
C6_UiExitDetected ==
    /\ \A d \in Daemons :
           (Running(d) /\ ui_visible[d] /\ uiAlive[d] = 0)
               ~> ((~ui_visible[d] /\ ~ui_thread_handle[d]) \/ ~Running(d))
    /\ [][\A d \in Daemons :
            (Handles(d, "Show") /\ ~ui_visible[d] /\ pc'[d] # "panicked") =>
                /\ uiAlive'[d] = uiAlive[d] + 1
                /\ ui_visible'[d]
                /\ ui_thread_handle'[d]]_vars

\* A Show was handled with ui_visible false after the loop had received the
\* closing of a session: no signal is left and the new session runs.
C6_Witness ==
    \E d \in Daemons :
        /\ handled[d].req = "Show"
        /\ ~handled[d].was_visible
        /\ uiAlive[d] = 1
        /\ ui_closed[d] = 0
        /\ ui_visible[d]

\* C7: after a daemon handles Hide, its ui_visible is false.
C7_HideClearsVisible ==
    [][\A d \in Daemons : Handles(d, "Hide") => ~ui_visible'[d]]_vars

\* C8: handling Status answers running = true with the current ui_visible and
\* changes neither ui_visible, the thread handle, the catalog, the PID file nor
\* the socket.
C8_StatusReadOnly ==
    [][\A d \in Daemons :
        Handles(d, "Status") =>
            /\ handled'[d].resp = RespStatus(TRUE, ui_visible[d])
            /\ handled'[d].resp.success
            /\ UNCHANGED <<ui_visible, ui_thread_handle, all_apps, ui_closed,
                           uiAlive, pidFile, sockFile>>]_vars

\* Status was handled while the UI was visible and answered so.
C8_Witness ==
    \E d \in Daemons :
        /\ handled[d].req = "Status"
        /\ handled[d].was_visible
        /\ handled[d].resp.data = "running,visible"
        /\ all_apps[d] = "discovered"

\* The only live process is d, started and about to run run_daemon.
StartedAlone(d) ==
    /\ pc[d] = "writePid"
    /\ \A e \in Daemons \ {d} : ~ProcessAlive(e)
    /\ spawnPending = 0

\* C9: while the PID file names a process that is not alive is_running() is
\* false, and a start made then (stale socket or not) brings a daemon into the
\* accept loop, unless the new process is killed or cannot write the PID file.
C9_StalePidTolerated ==
    /\ [](StalePid => ~is_running)
    /\ \A d \in Daemons :
           (StalePid /\ StartedAlone(d))
               ~> ((\E e \in Daemons : Running(e)) \/ pc[d] \in {"killed", "ioError"})

\* A start on a terminal has spawned a daemon process, the only live one, over
\* a stale PID file and a stale socket.
C9_Witness ==
    \E d \in Daemons :
        /\ StalePid
        /\ sockFile # NoPid /\ ~ProcessAlive(sockFile)
        /\ StartedAlone(d)
        /\ lastStart.msg = "Daemon started with PID"

\* The step in which a start on a terminal reports a running daemon.
ReportsAlready ==
    /\ lastStart' # lastStart
    /\ lastStart'.msg = "LaunchDock is already running"

C11_InvalidRequest ==
    /\ [][\A d \in Daemons :
            Handles(d, "Invalid") =>
                /\ ~handled'[d].resp.success
                /\ handled'[d].resp.error = "Invalid command format"
                /\ ui_visible'[d] = ui_visible[d]
                /\ ui_thread_handle'[d] = ui_thread_handle[d]
                /\ uiAlive'[d] = uiAlive[d]
                /\ Running(d)']_vars
    /\ \A d \in Daemons :
           (handled[d].req = "Invalid") ~> (pc[d] \in {"accept", "killed"})

\* An undecodable request was handled while the UI was visible: the daemon is
\* in its loop, still visible, the session still running.
C11_Witness ==
    \E d \in Daemons :
        /\ handled[d].req = "Invalid"
        /\ handled[d].was_visible
        /\ Running(d)
        /\ ui_visible[d]
        /\ uiAlive[d] = 1

\* The presentation surface failed to start for the Show d handled: the thread
\* could not be created, or run_ui of the new session failed at once.
ShowFailed(d) ==
    /\ handled[d].req = "Show"
    /\ handled[d].ui_failed \/ pc[d] = "panicked"

\* C12: when the presentation surface fails to start for a Show, the response
\* to that Show is an error response and the daemon is in its loop with
\* ui_visible false.
C12_ShowFailureReported ==
    \A d \in Daemons :
        ShowFailed(d) =>
            /\ ~handled[d].resp.success
            /\ handled[d].resp.error # "none"
            /\ Running(d)
            /\ ~ui_visible[d]

\* C13: when the PID file write or the bind fails during startup, no PID file
\* naming the failed process is left, and the start client that spawned it has
\* not reported a started daemon.
C13_StartupRollback ==
    \A d \in Daemons :
        pc[d] \in {"ioError", "addrInUse"} =>
            /\ pidFile # d
            /\ (\A e \in Daemons \ {d} : pc[e] = "unborn")
                   => lastStart.msg # "Daemon started with PID"

\* C14: a daemon in its loop leaves the loop only by handling Stop (or by
\* being killed from outside).
C14_OnlyStopEnds ==
    [][\A d \in Daemons :
        (Running(d) /\ ~Running(d)') =>
            (Handles(d, "Stop") \/ pc'[d] = "killed")]_vars

\* C15: a daemon that has spawned a session comes back to accept while the
\* session runs (unless the process ends), and a Status it accepts while the
\* session runs is answered at once, with visible = true.
C15_ShowDoesNotBlock ==
    /\ \A d \in Daemons :
           (handled[d].req = "Show" /\ uiAlive[d] > 0)
               ~> (pc[d] = "accept" \/ ~Running(d))
    /\ [][\A d \in Daemons :
            (Handles(d, "Status") /\ uiAlive[d] > 0) =>
                /\ handled'[d].resp = RespStatus(TRUE, TRUE)
                /\ uiAlive'[d] = uiAlive[d]
                /\ Running(d)']_vars

\* Status was handled and answered while the session spawned by a Show was
\* running.
C15_Witness ==
    \E d \in Daemons :
        /\ handled[d].req = "Status"
        /\ handled[d].ui_running
        /\ handled[d].resp = RespStatus(TRUE, TRUE)
        /\ uiAlive[d] = 1
        /\ Running(d)

\* C16: a client command sent while a daemon is detected ends with a non-zero
\* status when the connection fails or the daemon answers with an error
\* response, whose text goes to standard error, and with status 0 when the
\* daemon answers with success.
C16_ClientExitStatus ==
    (call.fn = "send_daemon_command" /\ call.running /\ result.returned) =>
        LET o == call.outcome
            v == result.value
        IN  /\ o.conn # "ok" => v.exit # 0
            /\ (o.conn = "ok" /\ ~o.resp.success) =>
                   (v.exit # 0 /\ v.stderr = o.resp.error)
            /\ (o.conn = "ok" /\ o.resp.success) => v.exit = 0

\* A client whose request the daemon answered with an error response has
\* returned: status 1 and the error text on standard error.
C16_Witness ==
    /\ call.fn = "send_daemon_command"
    /\ call.running
    /\ call.outcome.conn = "ok"
    /\ call.outcome.resp = RespError("Invalid command format")
    /\ result.returned
    /\ result.value.exit = 1
    /\ result.value.stderr = "Invalid command format"

\* C17: the daemon decodes the command the client sent however many of the
\* request bytes its read returns, and the client has the response once all
\* the response bytes have arrived, whether or not the peer has closed.
C17_SelfDelimiting ==
    /\ (call.fn = "read_request" /\ result.returned) => result.value = call.cmd
    /\ (call.fn = "read_response" /\ result.returned
           /\ call.arrived = Len(ResponseBytes(call.resp))) =>
              (~result.value.blocked /\ result.value.response = call.resp)

\* q is an ordered, not necessarily contiguous, subsequence of n.
RECURSIVE IsSubsequence(_, _)
IsSubsequence(q, n) ==
    IF q = <<>> THEN TRUE
    ELSE IF n = <<>> THEN FALSE
    ELSE \/ Head(q) = Head(n) /\ IsSubsequence(Tail(q), Tail(n))
         \/ IsSubsequence(q, Tail(n))

\* Record i of the call's catalog passes the subsequence test for its query.
Passes(i) ==
    IsSubsequence(to_ascii_lowercase(call.search_query),
                  to_ascii_lowercase(call.all_apps[i]))

\* filtered_apps has returned for the call.
Ranked == call.fn = "filtered_apps" /\ result.returned

\* C18: for a non-empty query the result holds exactly the records whose
\* lower-cased name has the lower-cased query as an ordered subsequence, each
\* of them once.
C18_ExactSubsequenceFilter ==
    (Ranked /\ call.search_query # <<>>) =>
        LET res == result.value
            n == Len(call.all_apps)
        IN  /\ \A j \in 1..Len(res) : res[j] \in 1..n /\ Passes(res[j])
            /\ \A i \in 1..n : Passes(i) => \E j \in 1..Len(res) : res[j] = i
            /\ \A j, k \in 1..Len(res) : j # k => res[j] # res[k]

\* "bb" against the names "BÉ" and "BÉB": only the second, where the query
\* characters are apart, is returned.
C18_Witness ==
    /\ Ranked
    /\ call.search_query = <<"b", "b">>
    /\ call.all_apps = << <<"B", "É">>, <<"B", "É", "B">> >>
    /\ result.value = <<2>>

\* C19: for every catalog the result for the empty query is empty.
C19_EmptyQueryEmptyResult ==
    (Ranked /\ call.search_query = <<>>) => result.value = <<>>

\* The empty query against a catalog of two records has returned nothing.
C19_Witness ==
    /\ Ranked
    /\ call.search_query = <<>>
    /\ Len(call.all_apps) = 2
    /\ \A i \in 1..2 : call.all_apps[i] # <<>>
    /\ result.value = <<>>

\* The score of matching record i of the call's catalog, times ScoreScale.
ScoreOf(i) ==
    score(call.all_apps[i],
          find_positions(to_ascii_lowercase(call.search_query),
                         to_ascii_lowercase(call.all_apps[i]), 0, <<>>).positions)

\* C20: in the result a record comes before another only if its score is
\* higher, or the scores are equal and it comes first in the catalog.
C20_OrderedByScore ==
    (Ranked /\ call.search_query # <<>>) =>
        LET res == result.value IN
        \A j, k \in 1..Len(res) :
            j < k =>
                \/ ScoreOf(res[j]) > ScoreOf(res[k])
                \/ ScoreOf(res[j]) = ScoreOf(res[k]) /\ res[j] < res[k]

\* The second record of the catalog scores higher than the first and is
\* returned before it.
C20_Witness ==
    /\ Ranked
    /\ result.value = <<2, 1>>
    /\ ScoreOf(2) > ScoreOf(1)

\* The leftmost-greedy position (from 0) of the k-th character of q in n: the
\* first occurrence after the position of the character before it.
RECURSIVE GreedyPosition(_, _, _)
GreedyPosition(q, n, k) ==
    LET from == IF k = 1 THEN 0 ELSE GreedyPosition(q, n, k - 1) + 1
    IN  CHOOSE i \in from..(Len(n) - 1) :
            /\ n[i + 1] = q[k]
            /\ \A j \in from..(i - 1) : n[j + 1] # q[k]

\* C21: the score of a returned record is 1000/max(name length, 1), plus
\* 1000/max(span, 1) when the query has two characters or more (span = last
\* matched position - first + 1), plus 200 for each pair of matched positions
\* next to each other that are adjacent in the name, plus 50/(first matched
\* position + 1), over the leftmost-greedy positions; the name length is
\* name.len(), its length in bytes.  Both sides are times ScoreScale.
C21_ScoreFormula ==
    (Ranked /\ call.search_query # <<>>) =>
        \A j \in 1..Len(result.value) :
            LET i == result.value[j]
                q == to_ascii_lowercase(call.search_query)
                n == to_ascii_lowercase(call.all_apps[i])
                first == GreedyPosition(q, n, 1)
                last == GreedyPosition(q, n, Len(q))
                pairs == {k \in 1..(Len(q) - 1) :
                            GreedyPosition(q, n, k + 1)
                                = GreedyPosition(q, n, k) + 1}
            IN  ScoreOf(i)
                = (1000 * ScoreScale) \div Max(len(call.all_apps[i]), 1)
                  + (IF Len(q) >= 2
                     THEN (1000 * ScoreScale) \div Max(last - first + 1, 1)
                     ELSE 0)
                  + 200 * ScoreScale * Cardinality(pairs)
                  + (50 * ScoreScale) \div (first + 1)

\* "bb" against "BÉB", a name of four bytes, matches at positions 0 and 2: a
\* span of 3 and no adjacent pair.
C21_Witness ==
    /\ Ranked
    /\ call.search_query = <<"b", "b">>
    /\ call.all_apps = << <<"B", "É", "B">> >>
    /\ result.value = <<1>>
    /\ ScoreOf(1) = 250 * ScoreScale + (1000 * ScoreScale) \div 3
                     + 50 * ScoreScale

\* str::to_lowercase: every letter in its lower-case form.
to_lowercase(str) == [i \in 1..Len(str) |-> LowerCase[str[i]]]

\* C22: two queries that differ only in the case of their letters give the
\* same result list, and a record is returned whenever its name has the
\* query's letters in order, whatever the case of the letters on either side.
C22_CaseInsensitive ==
    Ranked =>
        /\ \A other \in SeqUpTo(QueryChars, MaxQueryLen) :
               to_lowercase(other) = to_lowercase(call.search_query) =>
                   filtered_apps(call.all_apps, other) = result.value
        /\ call.search_query # <<>> =>
               \A i \in 1..Len(call.all_apps) :
                   IsSubsequence(to_lowercase(call.search_query),
                                 to_lowercase(call.all_apps[i])) =>
                       \E j \in 1..Len(result.value) : result.value[j] = i

\* discover_apps has returned for the call.
Built == call.fn = "discover_apps" /\ result.returned

\* The records the directory scan returns for the call's file system, in
\* scan order.
ScannedRecords == scan_all(call.target_os, call.dirs, 1)

\* The records the desktop-entry scan returns for the call's file system.
DesktopRecords ==
    IF call.target_os = "linux" THEN discover_desktop_entries(call.dirs, 1)
    ELSE <<>>

\* The records of the sequence `records` that have the name n.
Named(records, n) == {i \in 1..Len(records) : records[i].name = n}

\* C23: for every name that the directory scan or the desktop-entry scan
\* returns, once or more, the catalog holds exactly one record with that name
\* (the dedup key is the name), and when a desktop entry has the name the
\* record is one of a desktop entry.
C23_OneRecordPerKey ==
    Built =>
        \A n \in {ScannedRecords[i].name : i \in 1..Len(ScannedRecords)}
                 \cup {DesktopRecords[i].name : i \in 1..Len(DesktopRecords)} :
            /\ Cardinality(Named(result.value, n)) = 1
            /\ Named(DesktopRecords, n) # {} =>
                   \A j \in Named(result.value, n) :
                       \E i \in Named(DesktopRecords, n) :
                           result.value[j].path = DesktopRecords[i].path

\* An executable file "B" and a desktop entry named "B" in one directory:
\* the catalog has the record of the desktop entry alone.
C23_Witness ==
    /\ Built
    /\ call.target_os = "linux"
    /\ call.dirs = <<[readable |-> TRUE,
                      entries |-> <<ExecutableFile("B"),
                                    DesktopFile("B", "found", None, None, None)>>]>>
    /\ Len(result.value) = 1
    /\ result.value[1].path = <<1, 2>>

\* The least element of a set of numbers.
First(S) == CHOOSE i \in S : \A j \in S : i <= j

\* discover_applications of linux.rs has returned for the call.
BuiltOnLinux == call.fn = "linux::discover_applications" /\ result.returned

\* C24: a record of the catalog is the first-seen one among the records with
\* its key that come from the same kind of source: the first desktop entry
\* with its name when a desktop entry has the name, the first scanned record
\* with its name otherwise; in linux.rs, where the key is the path of the
\* executable, the first result with that path.
C24_FirstSeenWins ==
    /\ Built =>
           \A j \in 1..Len(result.value) :
               LET n == result.value[j].name IN
               IF Named(DesktopRecords, n) # {}
               THEN result.value[j].path
                        = DesktopRecords[First(Named(DesktopRecords, n))].path
               ELSE result.value[j].path
                        = ScannedRecords[First(Named(ScannedRecords, n))].path
    /\ BuiltOnLinux =>
           \A j \in 1..Len(result.value.apps) :
               LET results == call.entries \o linux_special_commands(call.user)
                   same == {i \in 1..Len(results) :
                               /\ results[i].result = "Ok"
                               /\ results[i].exe_path
                                      = result.value.apps[j].exe_path}
               IN  result.value.apps[j].name = results[First(same)].name

\* The names of the sequence `apps` are in non-decreasing order.
SortedByName(apps) ==
    \A i, j \in 1..Len(apps) : i < j => name_le(apps[i].name, apps[j].name)

\* C25: the catalog a builder returns is sorted by name in non-decreasing
\* byte order, whatever the files and the order they are scanned in.
C25_SortedByName ==
    /\ Built => SortedByName(result.value)
    /\ BuiltOnLinux => SortedByName(result.value.apps)

\* The names of the records of the sequence `apps`.
NamesOf(apps) == {apps[i].name : i \in 1..Len(apps)}

\* C26: discovery returns a catalog and never an error, and the catalog has
\* the name of every good item, whatever else is unreadable or malformed:
\* of every executable file and every desktop entry that is shown, named and
\* resolvable in a readable directory (model.rs), of every desktop entry that
\* gives a record (linux.rs), of every complete registry key and every
\* directory of Program Files with an .exe file (windows.rs).
C26_DiscoveryNeverFails ==
    /\ Built =>
           \A d \in 1..Len(call.dirs) :
               call.dirs[d].readable =>
                   \A e \in 1..Len(call.dirs[d].entries) :
                       LET file == call.dirs[d].entries[e] IN
                       /\ (file.ok /\ file.executable) =>
                              file.file_stem \in NamesOf(result.value)
                       /\ (/\ call.target_os = "linux"
                           /\ file.ok
                           /\ file.extension = "desktop"
                           /\ file.readable
                           /\ file.NoDisplay # "true"
                           /\ file.Name # None
                           /\ file.Exec = "found") =>
                              file.Name \in NamesOf(result.value)
    /\ BuiltOnLinux =>
           /\ result.value.ok
           /\ \A i \in 1..Len(call.entries) :
                  call.entries[i].result = "Ok" =>
                      \E j \in 1..Len(result.value.apps) :
                          result.value.apps[j].exe_path = call.entries[i].exe_path
    /\ (call.fn = "windows::discover_applications" /\ result.returned) =>
           /\ result.value.ok
           /\ (\E i \in 1..Len(call.registry) :
                   /\ call.registry[i].DisplayName # None
                   /\ call.registry[i].InstallLocation # None) =>
                  "É" \in NamesOf(result.value.apps)
           /\ (\E i \in 1..Len(call.program_files) :
                   call.program_files[i] = "exe") =>
                  "B" \in NamesOf(result.value.apps)

\* C27: every record of the catalog has a name that is not empty.
C27_NamesNotEmpty ==
    Built => \A j \in 1..Len(result.value) : result.value[j].name # ""

\* The file a record of the catalog was made from.
FileOf(app) == call.dirs[app.path[1]].entries[app.path[2]]

\* C28: no record of the catalog comes from a desktop entry that is marked
\* hidden or no-display.
C28_HiddenEntriesRejected ==
    Built =>
        \A j \in 1..Len(result.value) :
            LET file == FileOf(result.value[j]) IN
            file.extension = "desktop" =>
                file.NoDisplay # "true" /\ file.Hidden # "true"

\* C29: the icon of a record is a file that is a valid image, and a record
\* has one when a candidate of the search is valid: a candidate that is
\* there but corrupt is passed over.
C29_IconsAreValid ==
    Built =>
        \A j \in 1..Len(result.value) :
            LET icon == result.value[j].icon IN
            /\ icon.is_some => icon.value.state = "valid"
            /\ (/\ call.target_os = "linux"
                /\ \E k \in 1..Len(call.icons) : call.icons[k] = "valid") =>
                   icon.is_some

\* C30: while daemon d is in its loop its catalog is the one discover_apps
\* built at startup, and no step that leaves d in the loop (a request that is
\* handled, a UI-closed signal that is received, a step of a UI session or of
\* another process) changes it.
C30_CatalogReadOnly ==
    /\ [](\A d \in Daemons : Running(d) => all_apps[d] = "discovered")
    /\ [][\A d \in Daemons :
            (Running(d) /\ Running(d)') => all_apps'[d] = all_apps[d]]_vars

\* Daemon d has handled Show, the UI session has run and ended with its
\* signal still in the channel, and Hide has been handled last: d has the
\* catalog built at startup.
C30_Witness ==
    \E d \in Daemons :
        /\ Running(d)
        /\ handled[d].req = "Hide"
        /\ ui_visible[d]
        /\ uiAlive[d] = 0
        /\ ui_closed[d] > 0
        /\ all_apps[d] = "discovered"

\* C31: a session that has just been started has an empty query, the
\* selected index 0 and an empty result list, whatever the session before it
\* ended with.
C31_SessionStartsFresh ==
    (session.phase = "open" /\ session.message = NoMessage) =>
        /\ session.state.search_query = <<>>
        /\ session.state.selected_index = 0
        /\ session.state.current_filtered_apps = <<>>

\* A session has just been started after one that ended with a query and a
\* selected row other than the first.
C31_Witness ==
    /\ session.phase = "open"
    /\ session.message = NoMessage
    /\ session.ended_with.ended
    /\ ~session.ended_with.query_empty
    /\ ~session.ended_with.selected_zero
    /\ session.state.search_query = <<>>
    /\ session.state.selected_index = 0

\* C32: after an update that changes the query (InputChanged, a character
\* key that is appended, Backspace in ui.rs) the query is the new one, the
\* result list is the matcher's result for it over the session's catalog, and
\* the selected index is 0.
C32_ListFollowsQuery ==
    LET message == session.message
        state == session.state
    IN  /\ (session.phase = "open" /\ message.kind = "InputChanged") =>
               state.search_query = message.value
        /\ (/\ session.phase = "open"
            /\ message.key.type = "Character"
            /\ message.modifiers = "none") =>
               /\ state.search_query # <<>>
               /\ state.search_query[Len(state.search_query)]
                      = message.key.value
        /\ (/\ session.phase = "open"
            /\ \/ message.kind = "InputChanged"
               \/ message.key.type = "Character" /\ message.modifiers = "none"
               \/ session.variant = "ui" /\ message.key.value = "Backspace") =>
               /\ state.current_filtered_apps
                      = filtered_apps(state.all_apps, state.search_query)
               /\ state.selected_index = 0

\* Backspace has left a query of one letter that more records match than
\* are displayed.
C32_Witness ==
    /\ session.phase = "open"
    /\ session.variant = "ui"
    /\ session.message.key.value = "Backspace"
    /\ session.state.search_query = <<"b">>
    /\ Len(session.state.current_filtered_apps) > DISPLAY_COUNT
    /\ session.state.selected_index = 0

\* C33: in the bytes send_response writes for an Ok or Error response, the
\* two bytes after the type byte, read as a big-endian number, are the number
\* of bytes written after them, for a message of any length.
C33_PrefixIsPayloadLength ==
    (/\ call.fn = "ipc::send_response"
     /\ result.returned
     /\ call.response.type \in {"Ok", "Error"}) =>
        result.value[2] * 256 + result.value[3] = Len(result.value) - 3

\* C34: the decoder of send_command, given the bytes send_response wrote for
\* a response (Ok or Error with a message of at most 65535 bytes, or Status),
\* returns that response and has read exactly those bytes; the flags byte of
\* Status has daemon_running in bit 0 and ui_visible in bit 1; a first byte
\* that is no response type gives the InvalidData error.
C34_ResponseRoundTrip ==
    (call.fn = "ipc::send_command" /\ result.returned) =>
        IF call.sent.is_some
        THEN LET sent == call.sent.value
                 written == ipc_send_response(sent)
             IN  IF sent.type = "Status"
                 THEN /\ result.value.ok
                      /\ result.value.response = sent
                      /\ result.value.read = Len(written)
                      /\ sent.daemon_running <=> written[2] \in {1, 3}
                      /\ sent.ui_visible <=> written[2] \in {2, 3}
                 ELSE Len(as_bytes(sent.msg)) <= 65535 =>
                          /\ result.value.ok
                          /\ result.value.response.type = sent.type
                          /\ result.value.response.msg = as_bytes(sent.msg)
                          /\ result.value.read = Len(written)
        ELSE /\ ~result.value.ok
             /\ result.value.error = "InvalidData"

\* An Error response with a message of 256 bytes, whose prefix is 1, 0, has
\* been decoded from a stream that goes on after it.
C34_Witness ==
    /\ call.fn = "ipc::send_command"
    /\ result.returned
    /\ call.sent.is_some
    /\ call.sent.value.type = "Error"
    /\ call.sent.value.msg.repeat = 256
    /\ call.then # <<>>
    /\ result.value.ok
    /\ Len(result.value.response.msg) = 256
    /\ result.value.read = 259

\* C35: in every state of a session the selected index is 0 when the result
\* list is empty and less than min(length of the list, 7) otherwise; ArrowDown
\* on the last displayed row selects row 0 and ArrowUp on row 0 selects the
\* last displayed row.
C35_SelectionInRange ==
    /\ [](session.phase \in {"open", "closed"} =>
            LET state == session.state IN
            IF state.current_filtered_apps = <<>>
            THEN state.selected_index = 0
            ELSE state.selected_index
                     < Min(Len(state.current_filtered_apps), 7))
    /\ [][(/\ session.phase = "open"
           /\ session.state.current_filtered_apps # <<>>
           /\ session'.message.kind = "KeyPressed") =>
             LET last == Min(Len(session.state.current_filtered_apps), 7) - 1
             IN  /\ (/\ session'.message.key.value = "ArrowDown"
                     /\ session.state.selected_index = last) =>
                        session'.state.selected_index = 0
                 /\ (/\ session'.message.key.value = "ArrowUp"
                     /\ session.state.selected_index = 0) =>
                        session'.state.selected_index = last]_vars

\* ArrowUp has been pressed and the selected row is the seventh, the last
\* displayed one, of a list of more than seven records.
C35_Witness ==
    /\ session.phase = "open"
    /\ session.message.key.value = "ArrowUp"
    /\ Len(session.state.current_filtered_apps) > DISPLAY_COUNT
    /\ session.state.selected_index = 6

\* C38: in the update of view.rs, a character key that is a digit n with
\* 1 <= n <= min(length of the result list, 7) launches the n-th record of
\* the list and ends the session with the query as it was; every other
\* character key is appended to the query and launches nothing.
C38_DigitShortcuts ==
    [][(/\ session.variant = "view"
        /\ session.phase = "open"
        /\ session'.message.key.type = "Character") =>
          LET c == session'.message.key.value
              list == session.state.current_filtered_apps
              n == CASE c = "0" -> 0 [] c = "1" -> 1 [] c = "7" -> 7
                     [] c = "8" -> 8 [] OTHER -> 0
          IN  IF 1 <= n /\ n <= Min(Len(list), 7)
              THEN /\ session'.launched = <<list[n]>>
                   /\ session'.phase = "closed"
                   /\ session'.state = session.state
              ELSE /\ session'.launched = <<>>
                   /\ session'.phase = "open"
                   /\ session'.state.search_query
                          = Append(session.state.search_query, c)]_vars

\* The key 7 has launched the seventh record of a list of more than seven
\* for the query "b", a record that is not the seventh of the catalog.
C38_Witness ==
    /\ session.variant = "view"
    /\ session.phase = "closed"
    /\ session.message.key.value = "7"
    /\ session.state.search_query = <<"b">>
    /\ Len(session.state.current_filtered_apps) > DISPLAY_COUNT
    /\ session.launched = <<session.state.current_filtered_apps[7]>>
    /\ session.launched # <<7>>

\* C39: Enter launches the record at the selected index of the result list
\* when the list is not empty and nothing when it is, and ends the session
\* in both cases; Escape ends the session and launches nothing; a session
\* launches at most one record.
C39_EnterAndEscape ==
    /\ [](session.phase \in {"open", "closed"} => Len(session.launched) <= 1)
    /\ [][(session.phase = "open" /\ session'.message.kind # "none") =>
            LET message == session'.message
                list == session.state.current_filtered_apps
            IN  /\ message.key.value = "Enter" =>
                       /\ session'.phase = "closed"
                       /\ session'.launched =
                              IF list = <<>> THEN <<>>
                              ELSE <<list[session.state.selected_index + 1]>>
                /\ (message.key.value = "Escape"
                        \/ message.kind = "ForceExit") =>
                       /\ session'.phase = "closed"
                       /\ session'.launched = <<>>]_vars

\* Enter has launched the selected record, which is not the first of the
\* list.
C39_Witness ==
    /\ session.phase = "closed"
    /\ session.message.key.value = "Enter"
    /\ session.state.selected_index > 0
    /\ session.launched
           = <<session.state.current_filtered_apps[
                   session.state.selected_index + 1]>>

\* C36: whenever a daemon process is in its accept loop, the PID file holds
\* its process id and the socket path is bound to it: is_running() is true
\* and a client's command reaches that daemon.
C36_RunningDaemonReachable ==
    \A d \in Daemons :
        Running(d) =>
            /\ pidFile = d
            /\ sockFile = d
            /\ is_running
            /\ \A req \in Commands : (req = "Show" => os # "macos") =>
                                         send_command(d, req)

\* C37: every connection a daemon accepts gets one response, and the response
\* to Stop is written while the socket file and the PID file are still there
\* and the daemon process is still alive.
C37_EveryConnectionAnswered ==
    [][\A d \in Daemons :
         (pc[d] = "accept" /\ handled'[d].req # "none") =>
             /\ handled'[d].resp # NoResponse
             /\ Handles(d, "Stop") =>
                    /\ sockFile' = sockFile
                    /\ pidFile' = pidFile
                    /\ ProcessAlive(d)']_vars

====
